---- MODULE Spec2Model ----
(***************************************************************************)
(* Product matching and deduplication pipeline of roworks-scarppers:       *)
(* src/bom-layres-product-inggestion.js (PDF pipeline) and                 *)
(* src/urdf-product-ingestion.js (URDF pipeline), both writing the         *)
(* "products" collection of the "inggestData" database.                    *)
(*                                                                         *)
(* JavaScript values:                                                      *)
(*   a string is a sequence of one-character strings;                      *)
(*   a nullable value is a sequence of length <= 1: <<>> is null or        *)
(*   undefined, <<v>> is the value v;                                      *)
(*   a price is a decimal numeral, a string such as "99.5"; other numbers *)
(*   are integers.                                                         *)
(***************************************************************************)
EXTENDS Integers, Sequences, FiniteSets, TLC

VARIABLES
    env,            \* the sources and service answers of this behaviour (fixed)
    products,       \* collection inggestData.products, in insertion order
    pdfExtracts,    \* collection inggestData.pdfExtracts
    urdfExtracts,   \* collection inggestData.urdfExtracts
    run,            \* ingestAllPDFs / ingestAllURDFs and its processInBatches loop
    slots,          \* the processPDF / processURDF calls of the current batch
    settled,        \* outcome of every document of the current run, in order
    faults,         \* number of store operations that have failed so far
    atStart,        \* the collections as they were when the current run started
    clock,          \* the time new Date() returns
    mIn,            \* input of one match call: document text, service responses
    mOut,           \* what that match call returned
    fIn,            \* the argument of normalizeProductData / extractPrice
    fOut            \* what its calls on that argument returned, in order

vars == <<env, products, pdfExtracts, urdfExtracts, run, slots, settled,
          faults, atStart, clock, mIn, mOut, fIn, fOut>>

---------------------------------------------------------------------------
(* Nullable values *)

None == <<>>
Some(v) == <<v>>
IsNull(x) == x = <<>>
Val(x) == x[1]

\* x || d
OrElse(x, falsy, d) == IF IsNull(x) \/ Val(x) = falsy THEN d ELSE Val(x)

\* !!x for a nullable string / a nullable number
TruthyStr(x) == ~IsNull(x) /\ Val(x) # <<>>
TruthyNum(x) == ~IsNull(x) /\ Val(x) # <<"0">>

---------------------------------------------------------------------------
(* Strings *)

\* const v = value: JavaScript evaluates an initializer or an argument once,
\* then Body sees the value
Const(value, Body(_)) == CHOOSE r \in {Body(v) : v \in {value}} : TRUE

ToLowerChar(c) ==
    CASE c = "A" -> "a"
      [] c = "B" -> "b"
      [] c = "C" -> "c"
      [] c = "D" -> "d"
      [] c = "E" -> "e"
      [] c = "F" -> "f"
      [] c = "G" -> "g"
      [] c = "H" -> "h"
      [] c = "I" -> "i"
      [] c = "J" -> "j"
      [] c = "K" -> "k"
      [] c = "L" -> "l"
      [] c = "M" -> "m"
      [] c = "N" -> "n"
      [] c = "O" -> "o"
      [] c = "P" -> "p"
      [] c = "Q" -> "q"
      [] c = "R" -> "r"
      [] c = "S" -> "s"
      [] c = "T" -> "t"
      [] c = "U" -> "u"
      [] c = "V" -> "v"
      [] c = "W" -> "w"
      [] c = "X" -> "x"
      [] c = "Y" -> "y"
      [] c = "Z" -> "z"
      [] OTHER -> c

\* toLowerCase that leaves the case as it is
toLowerCaseKept(s) == s

toLowerCase(s) == [i \in 1..Len(s) |-> ToLowerChar(s[i])]

\* a \s that matches nothing
IsSpaceNever(c) == FALSE

\* \s of the regular expressions
IsSpace(c) == c \in {" ", "\t", "\n"}

\* the separators of /[\s\-_]+/
IsSeparator(c) == IsSpace(c) \/ c \in {"-", "_"}

\* a trim that strips nothing
trimKept(s) == s

RECURSIVE trimStart(_)
trimStart(s) ==
    IF s # <<>> /\ IsSpace(Head(s)) THEN trimStart(Tail(s)) ELSE s

RECURSIVE trimEnd(_)
trimEnd(s) ==
    IF s # <<>> /\ IsSpace(s[Len(s)]) THEN trimEnd(SubSeq(s, 1, Len(s) - 1)) ELSE s

trim(s) == trimEnd(trimStart(s))

\* s.split(/[\s\-_]+/): the pieces between maximal runs of separators; a
\* leading or trailing run yields an empty piece
RECURSIVE splitFrom(_, _, _)
splitFrom(s, i, cur) ==
    IF i > Len(s) THEN <<cur>>
    ELSE IF IsSeparator(s[i])
         THEN IF i > 1 /\ IsSeparator(s[i - 1])
              THEN splitFrom(s, i + 1, cur)
              ELSE <<cur>> \o splitFrom(s, i + 1, <<>>)
         ELSE splitFrom(s, i + 1, Append(cur, s[i]))

split(s) == splitFrom(s, 1, <<>>)

\* s.replace(/\s+/g, r)
RECURSIVE replaceSpaces(_, _, _)
replaceSpaces(s, i, r) ==
    IF i > Len(s) THEN <<>>
    ELSE IF IsSpace(s[i])
         THEN IF i > 1 /\ IsSpace(s[i - 1])
              THEN replaceSpaces(s, i + 1, r)
              ELSE r \o replaceSpaces(s, i + 1, r)
         ELSE <<s[i]>> \o replaceSpaces(s, i + 1, r)

\* [...new Set(list)]: duplicates dropped, first-seen order kept
RECURSIVE unique(_, _)
unique(list, seen) ==
    IF list = <<>> THEN <<>>
    ELSE IF Head(list) \in seen
         THEN unique(Tail(list), seen)
         ELSE <<Head(list)>> \o unique(Tail(list), seen \cup {Head(list)})

SelectSeqNonEmpty(list) == SelectSeq(list, LAMBDA t: Len(t) > 0)

---------------------------------------------------------------------------
(* Normalizer *)

\* a normalizer without its first aliases.push(nameNorm)
normalizeWithoutNameAlias(product) ==
    LET nameNorm == trim(toLowerCase(OrElse(product.name, <<>>, <<>>)))
    IN [brand_norm |-> trim(toLowerCase(OrElse(product.brand, <<>>, <<>>))),
        name_norm |-> nameNorm,
        name_tokens |-> SelectSeqNonEmpty(split(nameNorm)),
        aliases |-> unique(IF nameNorm # <<>>
                           THEN <<replaceSpaces(nameNorm, 1, <<>>),
                                  replaceSpaces(nameNorm, 1, <<"-">>),
                                  replaceSpaces(nameNorm, 1, <<"_">>)>>
                           ELSE <<>>, {})]

normalizeProductData(product) ==
    Const(trim(toLowerCase(OrElse(product.brand, <<>>, <<>>))), LAMBDA brandNorm:
    Const(trim(toLowerCase(OrElse(product.name, <<>>, <<>>))), LAMBDA nameNorm:
    Const(IF nameNorm # <<>>
          THEN <<nameNorm,
                 replaceSpaces(nameNorm, 1, <<>>),
                 replaceSpaces(nameNorm, 1, <<"-">>),
                 replaceSpaces(nameNorm, 1, <<"_">>)>>
               \o (IF TruthyStr(product.product_type)
                   THEN <<nameNorm \o <<" ">> \o toLowerCase(Val(product.product_type))>>
                   ELSE <<>>)
          ELSE <<>>, LAMBDA aliases:
        [brand_norm |-> brandNorm,
         name_norm |-> nameNorm,
         name_tokens |-> SelectSeqNonEmpty(split(nameNorm)),
         aliases |-> unique(aliases, {})])))

---------------------------------------------------------------------------
(* Matcher *)

MAX_RETRIES == 3
DEFAULT_RETRY_AFTER == 60
SERVER_ERROR_WAIT == 10

\* A parsed JSON value: t is "array", "object", "null" or "scalar"; items are
\* the elements of an array; fields are the members of an object in
\* Object.keys order, each [k, isArray, truthy, items].
JArray(items) == [t |-> "array", items |-> items, fields |-> <<>>]
JObject(fields) == [t |-> "object", items |-> <<>>, fields |-> fields]
JNull == [t |-> "null", items |-> <<>>, fields |-> <<>>]
JScalar == [t |-> "scalar", items |-> <<>>, fields |-> <<>>]
FArray(k, items) == [k |-> k, isArray |-> TRUE, truthy |-> TRUE, items |-> items]
FOther(k, truthy) == [k |-> k, isArray |-> FALSE, truthy |-> truthy, items |-> <<>>]

\* What one call of openai.chat.completions.create does: it resolves with a
\* message content (null, or a text that JSON.parse accepts or rejects), or
\* it rejects with an error carrying a status and a retry-after header.
Completion(content) ==
    [kind |-> "ok", content |-> content, status |-> None, retryAfter |-> None]
ApiError(status, retryAfter) ==
    [kind |-> "err", content |-> None, status |-> status, retryAfter |-> retryAfter]
JsonText(value) == [valid |-> TRUE, value |-> value]
BadJson == [valid |-> FALSE, value |-> JNull]

\* the n-th response of the service; the last response of a script repeats
ResponseAt(script, n) == IF n <= Len(script) THEN script[n] ELSE script[Len(script)]

HasField(fields, k) == \E i \in 1..Len(fields): fields[i].k = k
Field(fields, k) == fields[CHOOSE i \in 1..Len(fields): fields[i].k = k]
ArrayFields(fields) == SelectSeq(fields, LAMBDA f: f.isArray)

\* the candidate list with "matches" looked up ahead of "products"
extractMatchesFirst(json) ==
    IF ~json.valid THEN <<>>
    ELSE LET parsed == json.value IN
         IF parsed.t = "array" THEN parsed.items
         ELSE IF parsed.t = "null" THEN <<>>
         ELSE IF HasField(parsed.fields, "matches")
                 /\ Field(parsed.fields, "matches").truthy
                 /\ Field(parsed.fields, "matches").isArray
              THEN Field(parsed.fields, "matches").items
         ELSE IF HasField(parsed.fields, "products")
                 /\ Field(parsed.fields, "products").truthy
                 /\ Field(parsed.fields, "products").isArray
              THEN Field(parsed.fields, "products").items
         ELSE IF ArrayFields(parsed.fields) # <<>>
              THEN ArrayFields(parsed.fields)[1].items
         ELSE <<>>

\* lines 211-235: the candidate list of a response content
extractCandidates(json) ==
    IF ~json.valid THEN <<>>                       \* JSON.parse throws
    ELSE LET parsed == json.value IN
         IF parsed.t = "array" THEN parsed.items
         ELSE IF parsed.t = "null" THEN <<>>       \* parsed.products throws
         ELSE IF HasField(parsed.fields, "products")
                 /\ Field(parsed.fields, "products").truthy
                 /\ Field(parsed.fields, "products").isArray
              THEN Field(parsed.fields, "products").items
         ELSE IF HasField(parsed.fields, "matches")
                 /\ Field(parsed.fields, "matches").truthy
                 /\ Field(parsed.fields, "matches").isArray
              THEN Field(parsed.fields, "matches").items
         ELSE IF ArrayFields(parsed.fields) # <<>>
              THEN ArrayFields(parsed.fields)[1].items
         ELSE <<>>

Returned(result, calls, sleeps) ==
    [result |-> result, calls |-> calls, sleeps |-> sleeps, threw |-> FALSE]

\* a wait that ignores the header
retryAfterIgnored(r) == DEFAULT_RETRY_AFTER

\* error.headers?.['retry-after'] || 60, in seconds (a header is a string,
\* falsy only when absent or empty)
retryAfterOf(r) == IF IsNull(r.retryAfter) THEN DEFAULT_RETRY_AFTER ELSE Val(r.retryAfter)

\* a retry on whatever the service threw
RetryableAlways(r) == TRUE

\* error.status === 429, else error.status === 500 || error.status === 503
Retryable(r) == r.status = Some(429) \/ r.status = Some(500) \/ r.status = Some(503)

\* MayRetry with the bound one too low, and one too high
MayRetryTooFew(retryCount) == retryCount < MAX_RETRIES - 1
MayRetryTooMany(retryCount) == retryCount <= MAX_RETRIES

\* if (retryCount < MAX_RETRIES)
MayRetry(retryCount) == retryCount < MAX_RETRIES

\* matchProductsWithOpenAI / matchURDFProductsWithOpenAI (the two are the
\* same code).  calls counts the invocations of the service, sleeps lists
\* the sleep durations in seconds.
RECURSIVE matchProductsWithOpenAI(_, _, _)
matchProductsWithOpenAI(text, script, retryCount) ==
    IF text = <<>> \/ trim(text) = <<>>
    THEN Returned(<<>>, 0, <<>>)
    ELSE LET r == ResponseAt(script, retryCount + 1) IN
         IF r.kind = "ok"
         THEN IF IsNull(r.content)
              THEN Returned(<<>>, 1, <<>>)
              ELSE Returned(extractCandidates(Val(r.content)), 1, <<>>)
         ELSE IF Retryable(r)
              THEN LET wait == IF r.status = Some(429)
                               THEN retryAfterOf(r)
                               ELSE SERVER_ERROR_WAIT
                   IN IF MayRetry(retryCount)
                      THEN LET again == matchProductsWithOpenAI(text, script, retryCount + 1)
                           IN Returned(again.result, 1 + again.calls, <<wait>> \o again.sleeps)
                      ELSE Returned(<<>>, 1, <<wait>>)
              ELSE Returned(<<>>, 1, <<>>)

---------------------------------------------------------------------------
(* Persistent store: the MongoDB collections *)

\* collection.findOne({ fileName })
\* a findOne whose filter matches no record
findOneNever(coll, fileName) == None

findOneByFileName(coll, fileName) ==
    IF \E i \in 1..Len(coll): coll[i].fileName = fileName
    THEN Some(coll[CHOOSE i \in 1..Len(coll):
                     /\ coll[i].fileName = fileName
                     /\ \A j \in 1..(i - 1): coll[j].fileName # fileName])
    ELSE None

\* productCollection.findOne({"_norm.name_norm": n, "_norm.brand_norm": b}):
\* the first record in natural order that matches
findOneByNorm(coll, nameNorm, brandNorm) ==
    LET hit(i) == coll[i].norm.name_norm = nameNorm /\ coll[i].norm.brand_norm = brandNorm
    IN IF \E i \in 1..Len(coll): hit(i)
       THEN Some(coll[CHOOSE i \in 1..Len(coll): hit(i) /\ \A j \in 1..(i - 1): ~hit(j)])
       ELSE None

\* insertOne: the driver assigns a fresh _id
insertOne(coll, doc) == Append(coll, [doc EXCEPT !.id = Len(coll) + 1])
insertedId(coll) == Len(coll) + 1

\* $addToSet with $each: a value is appended unless the array already holds
\* an equal value (whole sub-document equality)
RECURSIVE addToSetEach(_, _)
addToSetEach(array, values) ==
    IF values = <<>> THEN array
    ELSE addToSetEach(IF \E i \in 1..Len(array): array[i] = Head(values)
                      THEN array
                      ELSE Append(array, Head(values)),
                      Tail(values))

---------------------------------------------------------------------------
(* Deduplicator / Merger: checkDuplicate and upsertProduct *)

\* lines 422-437 (without the catch, which is in the Lookup action)
checkDuplicate(coll, productDoc) ==
    Const(normalizeProductData(productDoc), LAMBDA normFields:
        findOneByNorm(coll, normFields.name_norm, normFields.brand_norm))

\* ...(productDoc.product_type && { product_type: productDoc.product_type })
SetsText(v) == TruthyStr(v)
\* the price spread without its null test
SetsPriceAlways(v) == TRUE
\* ...(productDoc.price !== null && productDoc.price !== undefined && {...})
SetsPrice(v) == ~IsNull(v)

\* an update that $sets source_refs instead of adding to it
mergeReplacesRefs(existing, productDoc, now) ==
    [existing EXCEPT
        !.updated_at = now,
        !.product_type = IF SetsText(productDoc.product_type)
                         THEN productDoc.product_type ELSE @,
        !.sub_type = IF SetsText(productDoc.sub_type)
                     THEN productDoc.sub_type ELSE @,
        !.price = IF SetsPrice(productDoc.price) THEN productDoc.price ELSE @,
        !.source_refs = productDoc.source_refs]

\* an update that replaces the record by the new document, keeping its _id
mergeOverwrites(existing, productDoc, now) ==
    [productDoc EXCEPT !.id = existing.id,
                       !.source_refs = addToSetEach(existing.source_refs, productDoc.source_refs)]

\* lines 447-459: the record after updateOne with $set and $addToSet
mergeInto(existing, productDoc, now) ==
    [existing EXCEPT
        !.updated_at = now,
        !.product_type = IF SetsText(productDoc.product_type)
                         THEN productDoc.product_type ELSE @,
        !.sub_type = IF SetsText(productDoc.sub_type)
                     THEN productDoc.sub_type ELSE @,
        !.price = IF SetsPrice(productDoc.price) THEN productDoc.price ELSE @,
        !.source_refs = addToSetEach(@, productDoc.source_refs)]

\* updateOne({ _id }, updateDoc)
updateOne(coll, id, productDoc, now) ==
    [i \in 1..Len(coll) |->
        IF coll[i].id = id THEN mergeInto(coll[i], productDoc, now) ELSE coll[i]]

---------------------------------------------------------------------------
(* Candidates returned by the reasoning service *)

Candidate(name, brand, product_type, sub_type, price, component_type) ==
    [isObject |-> TRUE, name |-> name, brand |-> brand,
     product_type |-> product_type, sub_type |-> sub_type, price |-> price,
     page |-> None, component_type |-> component_type]

\* a null entry of the returned array
NullCandidate ==
    [isObject |-> FALSE, name |-> None, brand |-> None, product_type |-> None,
     sub_type |-> None, price |-> None, page |-> None, component_type |-> None]

\* the validation without its test of the brand
LacksName(product) == ~TruthyStr(product.name)

\* if (!product.name || !product.brand)
LacksNameOrBrand(product) == ~TruthyStr(product.name) \/ ~TruthyStr(product.brand)

---------------------------------------------------------------------------
(* Source documents *)

BATCH_SIZE == 3

\* A source key is a path, a sequence of segments; fileKey.split("/").pop()
\* and path.basename(filePath) both give its last segment.
fileNameOf(key) == key[Len(key)]

ExtractsOf(pipeline) == IF pipeline = "pdf" THEN pdfExtracts ELSE urdfExtracts

\* files.slice(i, i + BATCH_SIZE), i counted from 0
BatchAt(files, i) == SubSeq(files, i + 1, IF i + BATCH_SIZE < Len(files)
                                          THEN i + BATCH_SIZE ELSE Len(files))

IdleSlot ==
    [pc |-> "idle", key |-> <<>>, text |-> <<>>, matched |-> <<>>, idx |-> 0,
     existing |-> None, docId |-> 0, savedCount |-> 0, updatedCount |-> 0,
     failedCount |-> 0, polls |-> 0, skipped |-> FALSE, fetched |-> FALSE,
     called |-> FALSE, wrote |-> FALSE]

\* batch.map(fileKey => processPDF(fileKey, ...)): every call runs up to its
\* first await, the findOne of the idempotency guard
Dispatched(batch) ==
    [s \in 1..BATCH_SIZE |->
        IF s <= Len(batch) THEN [IdleSlot EXCEPT !.pc = "exists", !.key = batch[s]]
        ELSE IdleSlot]

IsSettled(slot) == slot.pc \in {"idle", "fulfilled", "rejected"}

\* Promise.all in its place: the await is over at the first rejection
FirstRejectedOrAll(ss) ==
    \/ \E s \in 1..BATCH_SIZE: ss[s].pc = "rejected"
    \/ \A s \in 1..BATCH_SIZE: IsSettled(ss[s])

\* an await that is over only when every call has fulfilled
AllFulfilled(ss) == \A s \in 1..BATCH_SIZE: ss[s].pc \in {"idle", "fulfilled"}

\* a loop that does not await the calls it started
NoAwait(ss) == TRUE

\* await Promise.allSettled(...): resumes when every call has settled
AllSettled(ss) == \A s \in 1..BATCH_SIZE: IsSettled(ss[s])

\* the statuses Promise.allSettled resolves with, in batch order
RECURSIVE ResultsFrom(_, _)
ResultsFrom(ss, s) ==
    IF s > BATCH_SIZE THEN <<>>
    ELSE (IF ss[s].pc = "idle" THEN <<>>
          ELSE <<[key |-> ss[s].key, status |-> ss[s].pc, skipped |-> ss[s].skipped]>>)
         \o ResultsFrom(ss, s + 1)

\* a count that takes every result, whatever its status
CountStatusAny(results, status) == Len(results)

CountStatus(results, status) ==
    Cardinality({i \in 1..Len(results): results[i].status = status})

IdleRun ==
    [n |-> 0, pipeline |-> "pdf", files |-> <<>>, i |-> 0, phase |-> "idle",
     totalProcessed |-> 0, totalFailed |-> 0, results |-> <<>>, reported |-> FALSE,
     exitCode |-> None, prevPipeline |-> "pdf", prevFiles |-> <<>>]

---------------------------------------------------------------------------
(* Price Extractor *)

\* A number is a canonical decimal numeral: the digits of the integer part
\* without leading zeros ("0" for none), then, if the fraction is not zero,
\* "." and the fraction digits without trailing zeros.

IsDigit(c) == c \in {"0", "1", "2", "3", "4", "5", "6", "7", "8", "9"}
\* [$...]: the dollar, euro, pound and yen signs (the last three written out)
IsCurrencySymbol(c) == c \in {"$", "EURO", "POUND", "YEN"}
IsDotOrComma(c) == c \in {".", ","}
\* \w
IsLetter(c) == ToLowerChar(c) \in
    {"a", "b", "c", "d", "e", "f", "g", "h", "i", "j", "k", "l", "m",
     "n", "o", "p", "q", "r", "s", "t", "u", "v", "w", "x", "y", "z"}
IsWordChar(c) == IsDigit(c) \/ c = "_" \/ IsLetter(c)

DigitsAt(t, i, n) == i + n - 1 <= Len(t) /\ \A j \in i..(i + n - 1): IsDigit(t[j])
\* [.,]\d{n} at i
GroupAt(t, i, n) == i <= Len(t) /\ IsDotOrComma(t[i]) /\ DigitsAt(t, i + 1, n)
\* the literal word w at i, ignoring case
WordAt(t, i, w) ==
    i + Len(w) - 1 <= Len(t) /\ \A j \in 1..Len(w): ToLowerChar(t[i + j - 1]) = w[j]

\* the first position from i on whose character fails Test (Len(t) + 1 if none)
skipWhile(t, i, Test(_)) ==
    LET stops == {j \in i..Len(t) : ~Test(t[j])}
    IN IF stops # {} THEN CHOOSE j \in stops : \A k \in stops : j <= k
       ELSE IF i > Len(t) THEN i ELSE Len(t) + 1

\* (?:[.,]\d{3})* taken greedily from i: the position after it
RECURSIVE skipGroups(_, _)
skipGroups(t, i) == IF GroupAt(t, i, 3) THEN skipGroups(t, i + 4) ELSE i

\* \d{1,3}(?:[.,]\d{3})*(?:[.,]\d{2})? matched greedily at i (a digit is at
\* i): the position after the match
numeralEnd(t, i) ==
    LET d == IF DigitsAt(t, i, 3) THEN 3 ELSE IF DigitsAt(t, i, 2) THEN 2 ELSE 1
        g == skipGroups(t, i + d)
    IN IF GroupAt(t, g, 2) THEN g + 3 ELSE g

\* every position at which a match of the numeral started at i can end
\* (what backtracking can reach), with or without the optional last group
RECURSIVE groupEnds(_, _)
groupEnds(t, i) == {i} \cup (IF GroupAt(t, i, 3) THEN groupEnds(t, i + 4) ELSE {})

numeralEnds(t, i, withTail) ==
    LET starts == UNION {groupEnds(t, i + d) : d \in {n \in 1..3 : DigitsAt(t, i, n)}}
    IN IF withTail
       THEN starts \cup {g + 3 : g \in {h \in starts : GroupAt(t, h, 2)}}
       ELSE starts

CurrencyCodes == {<<"u", "s", "d">>, <<"e", "u", "r">>, <<"g", "b", "p">>,
                  <<"j", "p", "y">>, <<"c", "a", "d">>, <<"a", "u", "d">>}
PriceWords == <<<<"p", "r", "i", "c", "e">>, <<"c", "o", "s", "t">>,
                <<"p", "r", "i", "c", "i", "n", "g">>>>

\* The end (position after the match) of a match of pattern p starting at
\* i, or 0 when the pattern does not match at i.
\* 1: /[$...]\s*(NUM)/   2: /(NUM)\s*(?:USD|EUR|GBP|JPY|CAD|AUD)/i
\* 3: /(?:price|cost|pricing)[\s:]*[$...]?\s*(NUM)/i   4: /\b(\d{1,3}(?:[.,]\d{3})*\.\d{2})\b/
matchAt(t, i, p) ==
    CASE p = 1 ->
           IF IsCurrencySymbol(t[i])
           THEN LET j == skipWhile(t, i + 1, IsSpace)
                IN IF j <= Len(t) /\ IsDigit(t[j]) THEN numeralEnd(t, j) ELSE 0
           ELSE 0
      [] p = 2 ->
           IF IsDigit(t[i])
           THEN LET ends == {skipWhile(t, e, IsSpace) + 3 :
                               e \in {f \in numeralEnds(t, i, TRUE) :
                                        \E w \in CurrencyCodes :
                                            WordAt(t, skipWhile(t, f, IsSpace), w)}}
                IN IF ends = {} THEN 0 ELSE CHOOSE e \in ends : TRUE
           ELSE 0
      [] p = 3 ->
           IF \E k \in 1..Len(PriceWords) : WordAt(t, i, PriceWords[k])
           THEN LET k == CHOOSE n \in 1..Len(PriceWords) :
                            /\ WordAt(t, i, PriceWords[n])
                            /\ \A m \in 1..(n - 1) : ~WordAt(t, i, PriceWords[m])
                    a == skipWhile(t, i + Len(PriceWords[k]),
                                   LAMBDA c : IsSpace(c) \/ c = ":")
                    b == IF a <= Len(t) /\ IsCurrencySymbol(t[a]) THEN a + 1 ELSE a
                    j == skipWhile(t, b, IsSpace)
                IN IF j <= Len(t) /\ IsDigit(t[j]) THEN numeralEnd(t, j) ELSE 0
           ELSE 0
      [] OTHER ->
           IF IsDigit(t[i]) /\ (i = 1 \/ ~IsWordChar(t[i - 1]))
           THEN LET ends == {g + 3 : g \in {h \in numeralEnds(t, i, FALSE) :
                                              /\ h <= Len(t) /\ t[h] = "."
                                              /\ DigitsAt(t, h + 1, 2)
                                              /\ (h + 3 > Len(t) \/ ~IsWordChar(t[h + 3]))}}
                IN IF ends = {} THEN 0 ELSE CHOOSE e \in ends : \A f \in ends : f <= e
           ELSE 0

\* text.match(pattern)[0] for a global pattern: the leftmost match, or <<>>
firstMatch(t, p) ==
    LET hits == {i \in 1..Len(t) : matchAt(t, i, p) # 0}
    IN IF hits = {} THEN <<>>
       ELSE LET i == CHOOSE h \in hits : \A g \in hits : h <= g
            IN SubSeq(t, i, matchAt(t, i, p) - 1)

\* matches[0].match(/(NUM)/)[1]: the first numeral of the matched text
firstNumeral(m) ==
    LET i == skipWhile(m, 1, LAMBDA c : ~IsDigit(c))
    IN SubSeq(m, i, numeralEnd(m, i) - 1)

Contains(t, c) == \E i \in 1..Len(t) : t[i] = c

\* lines 397-405: a comma is the decimal separator when there is no dot
normalizeSeparators(priceStr) ==
    IF Contains(priceStr, ",") /\ ~Contains(priceStr, ".")
    THEN [i \in 1..Len(priceStr) |-> IF priceStr[i] = "," THEN "." ELSE priceStr[i]]
    ELSE SelectSeq(priceStr, LAMBDA c : c # ",")

RECURSIVE dropLeadingZeros(_)
dropLeadingZeros(d) ==
    IF Len(d) > 1 /\ Head(d) = "0" THEN dropLeadingZeros(Tail(d)) ELSE d

RECURSIVE dropTrailingZeros(_)
dropTrailingZeros(d) ==
    IF d # <<>> /\ d[Len(d)] = "0" THEN dropTrailingZeros(SubSeq(d, 1, Len(d) - 1)) ELSE d

\* parseFloat of a text that starts with a digit: the digits, and the digits
\* after the first dot, up to the first other character
parseFloat(str) ==
    LET e == skipWhile(str, 1, IsDigit)
        whole == dropLeadingZeros(SubSeq(str, 1, e - 1))
        f == IF e <= Len(str) /\ str[e] = "." THEN skipWhile(str, e + 1, IsDigit) ELSE e
        frac == IF f > e THEN dropTrailingZeros(SubSeq(str, e + 1, f - 1)) ELSE <<>>
    IN IF frac = <<>> THEN whole ELSE whole \o <<".">> \o frac

WholePart(num) == SubSeq(num, 1, skipWhile(num, 1, IsDigit) - 1)
IsPositive(num) == \E i \in 1..Len(num) : IsDigit(num[i]) /\ num[i] # "0"
\* num < 1000000
BelowMillion(num) == Len(WholePart(num)) <= 6

\* lines 391-412 / 416-436: the first pattern whose first match is a price in range
RECURSIVE scanPatterns(_, _)
scanPatterns(t, p) ==
    IF p > 4 THEN None
    ELSE Const(firstMatch(t, p), LAMBDA m:
         Const(IF m # <<>> THEN normalizeSeparators(firstNumeral(m)) ELSE <<>>,
               LAMBDA priceStr:
         Const(parseFloat(priceStr), LAMBDA price:
            IF m # <<>> /\ IsPositive(price) /\ BelowMillion(price)
            THEN Some(price)
            ELSE scanPatterns(t, p + 1))))

\* hay.indexOf(needle), counted from 0; -1 when absent
indexOf(hay, needle) ==
    LET at(i) == i + Len(needle) <= Len(hay)
                 /\ \A j \in 1..Len(needle) : hay[i + j] = needle[j]
        hits == {i \in 0..Len(hay) : at(i)}
    IN IF hits = {} THEN -1 ELSE CHOOSE h \in hits : \A g \in hits : h <= g

WINDOW == 100

\* lines 366-439
extractPrice(text, productName) ==
    IF text = <<>> THEN None
    ELSE Const(toLowerCase(text), LAMBDA textLower:
         Const(toLowerCase(productName), LAMBDA nameLower:
         Const(indexOf(textLower, nameLower), LAMBDA nameIndex:
            LET contextStart == IF nameIndex - WINDOW > 0 THEN nameIndex - WINDOW ELSE 0
                contextEnd == IF nameIndex + Len(productName) + WINDOW < Len(text)
                              THEN nameIndex + Len(productName) + WINDOW ELSE Len(text)
            IN Const(SubSeq(text, contextStart + 1, contextEnd), LAMBDA context:
               Const(IF nameIndex # -1 THEN scanPatterns(context, 1) ELSE None,
                     LAMBDA near:
                  IF ~IsNull(near) THEN near ELSE scanPatterns(text, 1))))))

---------------------------------------------------------------------------
(* Product documents *)

\* x || null
OrNullStr(x) == IF TruthyStr(x) THEN x ELSE None
OrNullNum(x) == IF TruthyNum(x) THEN x ELSE None
OrNullTag(x) == IF IsNull(x) \/ Val(x) = "" THEN None ELSE x

\* src/urdf-product-ingestion.js lines 585-612
urdfProductDoc(product, key, docId, now) ==
    [id |-> 0,
     name |-> product.name,
     brand |-> product.brand,
     product_type |-> OrNullStr(product.product_type),
     sub_type |-> OrNullStr(product.sub_type),
     price |-> OrNullNum(product.price),
     s3Key |-> None,
     source_refs |-> <<[source |-> "urdf_extract", collection |-> "urdfExtracts",
                        source_id |-> docId, page |-> None,
                        fileName |-> fileNameOf(key), filePath |-> Some(key),
                        componentType |-> OrNullTag(product.component_type)]>>,
     raw |-> [fileName |-> fileNameOf(key), page |-> None, sourceKey |-> key,
              componentType |-> OrNullTag(product.component_type)],
     assets |-> <<>>,
     norm |-> normalizeProductData(product),
     created_at |-> now,
     updated_at |-> now]

\* a price that is always looked up in the page text
pdfPriceFromText(product, pageText) == extractPrice(pageText, Val(product.name))

\* src/bom-layres-product-inggestion.js lines 661-676: the price of a candidate
pdfPrice(product, pageText) ==
    IF ~IsNull(product.price)
    THEN product.price
    ELSE extractPrice(pageText, Val(product.name))

\* src/bom-layres-product-inggestion.js lines 678-704
pdfProductDoc(product, key, docId, pageText, now) ==
    LET productPage == OrElse(product.page, 0, 1) IN
    [id |-> 0,
     name |-> product.name,
     brand |-> product.brand,
     product_type |-> OrNullStr(product.product_type),
     sub_type |-> OrNullStr(product.sub_type),
     price |-> pdfPrice(product, pageText),
     s3Key |-> Some(key),
     source_refs |-> <<[source |-> "pdf_extract", collection |-> "pdfExtracts",
                        source_id |-> docId, page |-> Some(productPage),
                        fileName |-> fileNameOf(key), filePath |-> None,
                        componentType |-> None]>>,
     raw |-> [fileName |-> fileNameOf(key), page |-> Some(productPage),
              sourceKey |-> key, componentType |-> None],
     assets |-> <<>>,
     norm |-> normalizeProductData(product),
     created_at |-> now,
     updated_at |-> now]

---------------------------------------------------------------------------
(* Batch Orchestrator: ingestAllPDFs / ingestAllURDFs, processInBatches *)

Running == run.phase = "batch"

\* What a process finds when it starts: the variables of its environment
\* (absent, or a string), manifest.json (absent, or its content) and whether
\* the store answers connect and ping.
Boot(openaiKey, region, mongoUri, manifest, connects) ==
    [OPENAI_API_KEY |-> openaiKey, AWS_REGION |-> region, MONGO_URI |-> mongoUri,
     manifest |-> manifest, connects |-> connects]

\* if (!X): the variable is unset or empty
Unset(v) == IsNull(v) \/ Val(v) = ""

\* lines 34-46 / 16-24: the variables each script requires
validateConfig(boot, pipeline) ==
    /\ ~Unset(boot.OPENAI_API_KEY)
    /\ pipeline = "pdf" => ~Unset(boot.AWS_REGION)
    /\ ~Unset(boot.MONGO_URI)

\* a manifest load that takes whatever JSON.parse accepts
manifestLoadsUnchecked(file) == ~IsNull(file) /\ Val(file).valid

\* lines 79-101 / 42-64: the file exists, JSON.parse accepts it, and
\* manifest && Array.isArray(manifest.vendors)
manifestLoads(file) ==
    IF IsNull(file) THEN FALSE
    ELSE IF ~Val(file).valid THEN FALSE
    ELSE LET manifest == Val(file).value IN
         IF manifest.t = "null" THEN FALSE
         ELSE IF manifest.t = "object" /\ HasField(manifest.fields, "vendors")
              THEN Field(manifest.fields, "vendors").isArray
         ELSE FALSE

\* the status of process.exit when the start fails, None when it goes on:
\* the checks at module load, then connect and ping in ingestAll...
startupExit(boot, pipeline) ==
    IF ~validateConfig(boot, pipeline) THEN Some(1)
    ELSE IF ~manifestLoads(boot.manifest) THEN Some(1)
    ELSE IF ~boot.connects THEN Some(1)
    ELSE None

\* ingestAll...: connect, list the sources, return at once when there are
\* none, else enter processInBatches and dispatch the first batch
StartRun(pipeline, files) ==
    /\ run.phase \in {"idle", "done"}
    /\ run.n < env.maxRuns
    /\ <<pipeline, files>> \in env.lists
    /\ IsNull(startupExit(env.boot, pipeline))
    /\ run' = [n |-> run.n + 1, pipeline |-> pipeline, files |-> files, i |-> 0,
               phase |-> IF files = <<>> THEN "done" ELSE "batch",
               totalProcessed |-> 0, totalFailed |-> 0, results |-> <<>>,
               reported |-> FALSE, exitCode |-> None,
               prevPipeline |-> run.pipeline, prevFiles |-> run.files]
    /\ slots' = Dispatched(BatchAt(files, 0))
    /\ settled' = <<>>
    /\ atStart' = [products |-> products, pdfExtracts |-> pdfExtracts,
                   urdfExtracts |-> urdfExtracts]
    /\ UNCHANGED <<env, products, pdfExtracts, urdfExtracts, faults, clock, mIn, mOut, fIn, fOut>>

\* the process exits before it connects, or because it cannot: lines 34-46,
\* 79-101 and 786-794
StartupFails(pipeline) ==
    /\ run.phase \in {"idle", "done", "exited"}
    /\ run.n < env.maxRuns
    /\ ~IsNull(startupExit(env.boot, pipeline))
    /\ run' = [IdleRun EXCEPT !.n = run.n + 1, !.pipeline = pipeline,
                              !.phase = "exited",
                              !.exitCode = startupExit(env.boot, pipeline),
                              !.prevPipeline = run.pipeline, !.prevFiles = run.files]
    /\ UNCHANGED <<env, products, pdfExtracts, urdfExtracts, slots, settled,
                   faults, atStart, clock, mIn, mOut, fIn, fOut>>

\* a counting loop that takes every result for a failure
TallyAllFailed(r, results) ==
    [r EXCEPT !.totalFailed = @ + Len(results), !.results = results]

\* a counting loop without its else branch
TallyFulfilledOnly(r, results) ==
    [r EXCEPT !.totalProcessed = @ + CountStatus(results, "fulfilled"),
              !.results = results]

\* lines 770-778: the counting loop over the results of one batch
Tally(r, results) ==
    [r EXCEPT !.totalProcessed = @ + CountStatus(results, "fulfilled"),
              !.totalFailed = @ + CountStatus(results, "rejected"),
              !.results = results]

\* Promise.allSettled resolves: count, then dispatch the next batch or, after
\* the last one, log the final tally and return
BatchSettled ==
    /\ Running
    /\ AllSettled(slots)
    /\ LET results == ResultsFrom(slots, 1)
           next == run.i + BATCH_SIZE
           last == next >= Len(run.files)
       IN /\ run' = [Tally(run, results) EXCEPT
                        !.i = next,
                        !.phase = IF last THEN "done" ELSE "batch",
                        !.reported = last]
          /\ slots' = IF last THEN [s \in 1..BATCH_SIZE |-> IdleSlot]
                      ELSE Dispatched(BatchAt(run.files, next))
          /\ settled' = settled \o results
    /\ UNCHANGED <<env, products, pdfExtracts, urdfExtracts, faults, atStart,
                   clock, mIn, mOut, fIn, fOut>>

---------------------------------------------------------------------------
(* processPDF / processURDF: one action per continuation after an await *)

MaxPolls == 1

Step(s, slot) == slots' = [slots EXCEPT ![s] = slot]
At(s, pc) == Running /\ slots[s].pc = pc
Rejected(slot) == [slot EXCEPT !.pc = "rejected"]
StoreMayFail == faults < env.maxFaults
MayThrow(slot) == slot.key \in env.flaky

UnchangedStore == UNCHANGED <<products, pdfExtracts, urdfExtracts, faults, clock>>
UnchangedRun == UNCHANGED <<env, run, settled, atStart, mIn, mOut, fIn, fOut>>

\* the guard without its early return
AfterExistsCheckNoReturn(slot, exists) == [slot EXCEPT !.pc = "fetch", !.fetched = TRUE]

\* lines 586-590 / 515-519: if (exists) return, else go on to the text fetch
AfterExistsCheck(slot, exists) ==
    IF ~IsNull(exists)
    THEN [slot EXCEPT !.pc = "fulfilled", !.skipped = TRUE]
    ELSE [slot EXCEPT !.pc = "fetch", !.fetched = TRUE]

ExistsCheck(s) ==
    /\ At(s, "exists")
    /\ Step(s, AfterExistsCheck(slots[s],
                findOneByFileName(ExtractsOf(run.pipeline), fileNameOf(slots[s].key))))
    /\ UnchangedStore /\ UnchangedRun

\* the findOne of the guard rejects: processPDF rejects
ExistsCheckFails(s) ==
    /\ At(s, "exists")
    /\ StoreMayFail
    /\ faults' = faults + 1
    /\ Step(s, Rejected(slots[s]))
    /\ UNCHANGED <<products, pdfExtracts, urdfExtracts, clock>> /\ UnchangedRun

\* a poll that takes every status but IN_PROGRESS for a result
AfterPollAnyTerminal(slot, status, text) ==
    IF status = "IN_PROGRESS" THEN [slot EXCEPT !.polls = @ + 1]
    ELSE [slot EXCEPT !.pc = "match", !.text = text, !.polls = 0]

\* runTextract, lines 563-579: one GetDocumentAnalysis poll
AfterPoll(slot, status, text) ==
    IF status = "IN_PROGRESS" THEN [slot EXCEPT !.polls = @ + 1]
    ELSE IF status # "SUCCEEDED" THEN [Rejected(slot) EXCEPT !.polls = 0]
    ELSE [slot EXCEPT !.pc = "match", !.text = text, !.polls = 0]

TextractPoll(s, status, text) ==
    /\ At(s, "fetch")
    /\ run.pipeline = "pdf"
    /\ status = "IN_PROGRESS" => slots[s].polls < MaxPolls
    /\ status \in {"FAILED", "PARTIAL_SUCCESS"} => MayThrow(slots[s])
    /\ Step(s, AfterPoll(slots[s], status, text))
    /\ UnchangedStore /\ UnchangedRun

\* textract.send rejects (StartDocumentAnalysis or GetDocumentAnalysis)
TextractThrows(s) ==
    /\ At(s, "fetch")
    /\ run.pipeline = "pdf"
    /\ MayThrow(slots[s])
    /\ Step(s, [Rejected(slots[s]) EXCEPT !.polls = 0])
    /\ UnchangedStore /\ UnchangedRun

\* parseURDFFile and formatURDFForLLM, lines 525-530: the text is never empty
ParseURDF(s, text) ==
    /\ At(s, "fetch")
    /\ run.pipeline = "urdf"
    /\ text # <<>>
    /\ Step(s, [slots[s] EXCEPT !.pc = "match", !.text = text])
    /\ UnchangedStore /\ UnchangedRun

\* parseURDFFile throws (unreadable file, no <robot> element)
ParseURDFThrows(s) ==
    /\ At(s, "fetch")
    /\ run.pipeline = "urdf"
    /\ MayThrow(slots[s])
    /\ Step(s, Rejected(slots[s]))
    /\ UnchangedStore /\ UnchangedRun

\* a document without matches treated as an error
AfterMatchRejectsEmpty(slot, pipeline, m) ==
    IF m.threw \/ m.result = <<>> THEN [Rejected(slot) EXCEPT !.called = m.calls > 0]
    ELSE [slot EXCEPT !.pc = IF pipeline = "pdf" THEN "assets" ELSE "insertDoc",
                      !.matched = m.result,
                      !.called = m.calls > 0]

\* a document that enters the loop over its candidates right after the match,
\* its IngestionRecord not written
AfterMatchSkipsInsert(slot, pipeline, m) ==
    IF m.threw THEN [Rejected(slot) EXCEPT !.called = m.calls > 0]
    ELSE [slot EXCEPT !.pc = IF m.result = <<>> THEN "fulfilled" ELSE "candidate",
                      !.idx = 1,
                      !.matched = m.result,
                      !.called = m.calls > 0]

\* lines 609 / 534: the whole match call, retries included; it touches
\* nothing but the reasoning service
AfterMatch(slot, pipeline, m) ==
    IF m.threw THEN [Rejected(slot) EXCEPT !.called = m.calls > 0]
    ELSE [slot EXCEPT !.pc = IF pipeline = "pdf" THEN "assets" ELSE "insertDoc",
                      !.matched = m.result,
                      !.called = m.calls > 0]

Match(s, script) ==
    /\ At(s, "match")
    /\ <<slots[s].key, script>> \in env.answers
    /\ Step(s, AfterMatch(slots[s], run.pipeline,
                          matchProductsWithOpenAI(slots[s].text, script, 0)))
    /\ UnchangedStore /\ UnchangedRun

\* lines 617-620: extractImagesFromPDF catches everything; then the presigned URL
Assets(s) ==
    /\ At(s, "assets")
    /\ Step(s, [slots[s] EXCEPT !.pc = "insertDoc"])
    /\ UnchangedStore /\ UnchangedRun

\* getSignedUrl rejects
AssetsThrow(s) ==
    /\ At(s, "assets")
    /\ MayThrow(slots[s])
    /\ Step(s, Rejected(slots[s]))
    /\ UnchangedStore /\ UnchangedRun

\* lines 623-643 / 542-565: the IngestionRecord
extractDoc(slot) ==
    [id |-> 0, fileName |-> fileNameOf(slot.key), sourceKey |-> slot.key,
     matchedProductsCount |-> Len(slot.matched), createdAt |-> clock]

\* for (const product of matchedProducts): the loop is at element idx, or over
LoopFrom(slot, idx) ==
    IF idx > Len(slot.matched)
    THEN [slot EXCEPT !.pc = "fulfilled", !.idx = idx]
    ELSE [slot EXCEPT !.pc = "candidate", !.idx = idx]

InsertDoc(s) ==
    /\ At(s, "insertDoc")
    /\ IF run.pipeline = "pdf"
       THEN /\ pdfExtracts' = insertOne(pdfExtracts, extractDoc(slots[s]))
            /\ UNCHANGED urdfExtracts
       ELSE /\ urdfExtracts' = insertOne(urdfExtracts, extractDoc(slots[s]))
            /\ UNCHANGED pdfExtracts
    /\ Step(s, LoopFrom([slots[s] EXCEPT
                            !.wrote = TRUE,
                            !.docId = insertedId(ExtractsOf(run.pipeline))], 1))
    /\ UNCHANGED <<products, faults, clock>> /\ UnchangedRun

InsertDocFails(s) ==
    /\ At(s, "insertDoc")
    /\ StoreMayFail
    /\ faults' = faults + 1
    /\ Step(s, Rejected(slots[s]))
    /\ UNCHANGED <<products, pdfExtracts, urdfExtracts, clock>> /\ UnchangedRun

\* lines 650-659 / 573-582: validation of one candidate.  A null entry makes
\* product.name throw; the catch counts it and throws again on product.name,
\* which leaves the loop and rejects the document.
Validate(slot, pipeline) ==
    LET product == slot.matched[slot.idx] IN
    IF ~product.isObject
    THEN [Rejected(slot) EXCEPT !.failedCount = @ + 1]
    ELSE IF LacksNameOrBrand(product)
    THEN LoopFrom([slot EXCEPT !.failedCount = @ + 1], slot.idx + 1)
    ELSE [slot EXCEPT !.pc = IF pipeline = "pdf" THEN "write" ELSE "lookup"]

ValidateCandidate(s) ==
    /\ At(s, "candidate")
    /\ Step(s, Validate(slots[s], run.pipeline))
    /\ UnchangedStore /\ UnchangedRun

\* upsertProduct line 443: checkDuplicate resolves with the record or null
Lookup(s) ==
    /\ At(s, "lookup")
    /\ LET found == checkDuplicate(products, slots[s].matched[slots[s].idx])
       IN Step(s, [slots[s] EXCEPT
                     !.pc = "write",
                     !.existing = IF IsNull(found) THEN None ELSE Some(Val(found).id)])
    /\ UnchangedStore /\ UnchangedRun

\* lines 433-436: findOne rejects, checkDuplicate logs and returns null
LookupFails(s) ==
    /\ At(s, "lookup")
    /\ StoreMayFail
    /\ faults' = faults + 1
    /\ Step(s, [slots[s] EXCEPT !.pc = "write", !.existing = None])
    /\ UNCHANGED <<products, pdfExtracts, urdfExtracts, clock>> /\ UnchangedRun

\* new Date(): the clock has moved on by at most one tick since the last write
Times == {clock} \cup (IF clock < env.maxClock THEN {clock + 1} ELSE {})

\* src/bom-layres-product-inggestion.js lines 706-715: insertOne, always
WritePdfProduct(s, now) ==
    /\ At(s, "write")
    /\ run.pipeline = "pdf"
    /\ now \in Times
    /\ clock' = now
    /\ products' = insertOne(products,
            pdfProductDoc(slots[s].matched[slots[s].idx], slots[s].key,
                          slots[s].docId, slots[s].text, now))
    /\ Step(s, LoopFrom([slots[s] EXCEPT !.savedCount = @ + 1, !.wrote = TRUE],
                        slots[s].idx + 1))
    /\ UNCHANGED <<pdfExtracts, urdfExtracts, faults>> /\ UnchangedRun

\* an upsert that looks the key up again in the collection it writes to
UpsertAtomic(coll, existing, productDoc, now) ==
    LET found == findOneByNorm(coll, productDoc.norm.name_norm, productDoc.norm.brand_norm)
    IN IF ~IsNull(found)
       THEN updateOne(coll, Val(found).id, productDoc, now)
       ELSE insertOne(coll, productDoc)

\* an upsert that inserts whatever the lookup found
UpsertAlwaysInserts(coll, existing, productDoc, now) == insertOne(coll, productDoc)

\* upsertProduct lines 445-483 with the counting of lines 618-622
Upsert(coll, existing, productDoc, now) ==
    IF ~IsNull(existing)
    THEN updateOne(coll, Val(existing), productDoc, now)
    ELSE insertOne(coll, productDoc)

\* a return value that ignores result.modifiedCount
upsertResultAlwaysUpdated(coll, existing, after) ==
    IF ~IsNull(existing)
    THEN [inserted |-> FALSE, updated |-> TRUE, id |-> Val(existing)]
    ELSE [inserted |-> TRUE, updated |-> FALSE, id |-> insertedId(coll)]

\* what upsertProduct returns, lines 466-480: after is the collection it left
upsertResult(coll, existing, after) ==
    IF ~IsNull(existing)
    THEN [inserted |-> FALSE, updated |-> after # coll, id |-> Val(existing)]
    ELSE [inserted |-> TRUE, updated |-> FALSE, id |-> insertedId(coll)]

WriteUrdfProduct(s, now) ==
    /\ At(s, "write")
    /\ run.pipeline = "urdf"
    /\ now \in Times
    /\ clock' = now
    /\ LET slot == slots[s]
           productDoc == urdfProductDoc(slot.matched[slot.idx], slot.key, slot.docId, now)
       IN \E after \in {Const(productDoc, LAMBDA doc:
                            Upsert(products, slot.existing, doc, now))}:
            LET result == upsertResult(products, slot.existing, after)
            IN /\ products' = after
               /\ Step(s, LoopFrom([slot EXCEPT
                                      !.savedCount = IF result.inserted THEN @ + 1 ELSE @,
                                      !.updatedCount = IF result.updated THEN @ + 1 ELSE @,
                                      !.existing = None,
                                      !.wrote = TRUE],
                                   slot.idx + 1))
    /\ UNCHANGED <<pdfExtracts, urdfExtracts, faults>> /\ UnchangedRun

\* insertOne / updateOne rejects: the catch of the candidate counts it
WriteFails(s) ==
    /\ At(s, "write")
    /\ StoreMayFail
    /\ faults' = faults + 1
    /\ Step(s, LoopFrom([slots[s] EXCEPT !.failedCount = @ + 1, !.existing = None],
                        slots[s].idx + 1))
    /\ UNCHANGED <<products, pdfExtracts, urdfExtracts, clock>> /\ UnchangedRun

---------------------------------------------------------------------------
(* The inputs: strings, candidates, service responses, sources *)

sRoboArm == <<"R", "o", "b", "o", " ", "A", "r", "m">>
sroboarm == <<"r", "o", "b", "o", " ", "a", "r", "m">>
sGrip    == <<"G", "r", "i", "p">>
sABB     == <<"A", "B", "B">>
sabb     == <<"a", "b", "b">>
sRobot   == <<"R", "o", "b", "o", "t">>
sArm     == <<"A", "r", "m">>
sText    == <<"R", "o", "b", "o", " ", "A", "r", "m", " ", "$", "5">>

n99_5    == <<"9", "9", ".", "5">>
n12      == <<"1", "2">>
n0       == <<"0">>

cRoboArm == Candidate(Some(sRoboArm), Some(sABB), Some(sRobot), None, Some(n99_5), Some("robot"))
croboarm == Candidate(Some(sroboarm), Some(sabb), None, Some(sArm), None, None)
cFalsy   == Candidate(Some(sroboarm), Some(sabb), Some(<<>>), Some(<<>>), Some(n0), Some(""))
cGrip    == Candidate(Some(sGrip), Some(sABB), None, None, Some(n12), Some("link"))
cOther   == Candidate(Some(sRoboArm), Some(sabb), Some(sArm), Some(sRobot), Some(n12), None)
cNoName  == Candidate(None, Some(sABB), Some(sRobot), None, None, None)
cNoBrand == Candidate(Some(sGrip), Some(<<>>), None, None, None, None)
\* an entry that is a number or a string: every property read of it is undefined
cScalar  == Candidate(None, None, None, None, None, None)

\* a response with { "products": [...] }
Answer(list) == Completion(Some(JsonText(JObject(<<FArray("products", list)>>))))
RateLimited == ApiError(Some(429), None)

pdfA == <<"uploads", "a.pdf">>
pdfB == <<"uploads", "b.pdf">>
pdfC == <<"uploads", "c.pdf">>
pdfD == <<"uploads", "d.pdf">>
urdfA == <<"URDF", "a.urdf">>
urdfB == <<"URDF", "b.urdf">>
urdfC == <<"URDF", "c.urdf">>
urdfD == <<"URDF", "d.urdf">>

MaxRuns == 2
MaxSeqRuns == 3
MaxClock == 1
MaxFaults == 1
MaxScript == 2

\* what the reasoning service answers for each document
Answers ==
    {<<pdfA, <<Answer(<<cRoboArm>>)>>>>,
     <<pdfB, <<Answer(<<croboarm, cNoName>>)>>>>,
     <<pdfC, <<RateLimited>>>>,
     <<pdfD, <<Answer(<<cNoBrand, cGrip>>)>>>>,
     <<urdfA, <<Answer(<<cRoboArm>>)>>>>,
     <<urdfB, <<Answer(<<croboarm, cNoName>>)>>>>,
     <<urdfC, <<RateLimited>>>>,
     <<urdfD, <<Answer(<<cNoBrand, croboarm>>)>>>>}

\* a manifest with a vendors array, and a start that finds all it needs
GoodManifest == Some(JsonText(JObject(<<FArray("vendors", <<>>)>>)))
BootOk == Boot(Some("sk-1"), Some("us-east-1"), Some("mongodb://db"), GoodManifest, TRUE)

\* the starts of a process: each variable unset, empty or set; the manifest
\* absent, not JSON, null, an object without vendors, one whose vendors is
\* no array, or good; the store answering or not
ConfigValues == {None, Some(""), Some("set")}
Manifests ==
    {None, Some(BadJson), Some(JsonText(JNull)), Some(JsonText(JObject(<<>>))),
     Some(JsonText(JObject(<<FOther("vendors", TRUE)>>))), GoodManifest}
Boots ==
    {Boot(k, r, m, f, c) : k \in ConfigValues, r \in ConfigValues, m \in ConfigValues,
                           f \in Manifests, c \in BOOLEAN}

\* runs of either pipeline over two batches (3 + 1 documents); the second
\* document of the first batch may throw
EnvBatch ==
    [lists |-> {<<"pdf", <<pdfA, pdfB, pdfC, pdfD>>>>,
                <<"urdf", <<urdfA, urdfB, urdfC, urdfD>>>>,
                <<"pdf", <<>>>>},
     answers |-> Answers,
     texts |-> {sText},
     flaky |-> {pdfB, urdfB},
     maxRuns |-> MaxRuns,
     maxFaults |-> 0,
     maxClock |-> 0,
     boot |-> BootOk]

\* what the reasoning service answers for the documents processed one by one
SeqAnswers ==
    {<<pdfA, <<Answer(<<cRoboArm>>)>>>>,
     <<pdfB, <<Answer(<<croboarm>>)>>>>,
     <<urdfA, <<Answer(<<cRoboArm>>)>>>>,
     <<urdfB, <<Answer(<<croboarm>>)>>>>,
     <<urdfC, <<Answer(<<cFalsy, cGrip>>)>>>>,
     <<urdfD, <<Answer(<<cOther>>)>>>>}

\* runs over a single document each: documents processed one after the other
EnvSeq ==
    [lists |-> {<<"pdf", <<pdfA>>>>, <<"pdf", <<pdfB>>>>,
                <<"urdf", <<urdfA>>>>, <<"urdf", <<urdfB>>>>,
                <<"urdf", <<urdfC>>>>, <<"urdf", <<urdfD>>>>},
     answers |-> SeqAnswers,
     texts |-> {sText},
     flaky |-> {pdfB, urdfB},
     maxRuns |-> MaxSeqRuns,
     maxFaults |-> 0,
     maxClock |-> MaxClock,
     boot |-> BootOk]

\* one run of either pipeline
EnvLive == [EnvBatch EXCEPT !.maxRuns = 1]

\* no run at all
EnvNone == [EnvBatch EXCEPT !.lists = {}, !.maxRuns = 0]

\* content that parses to an object without any array
NoArray == Completion(Some(JsonText(JObject(<<FOther("products", TRUE), FOther("note", FALSE)>>))))

\* answers with malformed entries, answers that hold no list at all, and one
\* (a.urdf) that names the same product twice, as two components
MalformedAnswers ==
    {<<pdfA, <<Answer(<<cScalar, cNoName, cRoboArm>>)>>>>,
     <<pdfB, <<Answer(<<NullCandidate, cGrip>>)>>>>,
     <<pdfC, <<Completion(Some(BadJson))>>>>,
     <<pdfD, <<NoArray>>>>,
     <<urdfA, <<Answer(<<cScalar, cNoName, cRoboArm, cOther>>)>>>>,
     <<urdfB, <<Answer(<<NullCandidate, cGrip>>)>>>>,
     <<urdfC, <<Completion(Some(BadJson))>>>>,
     <<urdfD, <<NoArray>>>>}

\* one run of either pipeline over documents whose answers are malformed
EnvMalformed ==
    [EnvBatch EXCEPT !.lists = {<<"pdf", <<pdfA, pdfB, pdfC, pdfD>>>>,
                                <<"urdf", <<urdfA, urdfB, urdfC, urdfD>>>>},
                     !.answers = MalformedAnswers,
                     !.flaky = {pdfA, urdfA},
                     !.maxRuns = 1]

\* the responses of the reasoning service to one call
MatchResponses ==
    {Answer(<<cRoboArm>>),
     Completion(Some(JsonText(JArray(<<cGrip>>)))),
     Completion(Some(BadJson)),
     Completion(None),
     ApiError(Some(429), None),
     ApiError(Some(429), Some(5)),
     ApiError(Some(500), None),
     ApiError(Some(503), None),
     ApiError(Some(400), None),
     ApiError(None, None)}

MatchScripts == UNION {[1..n -> MatchResponses] : n \in 1..MaxScript}
MatchTexts == {<<>>, <<" ", "\n">>, sText}
NoMatch == [text |-> <<>>, script |-> <<>>]

\* nothing stored, nothing running
InitIdle ==
    /\ products = <<>>
    /\ pdfExtracts = <<>>
    /\ urdfExtracts = <<>>
    /\ run = IdleRun
    /\ slots = [s \in 1..BATCH_SIZE |-> IdleSlot]
    /\ settled = <<>>
    /\ faults = 0
    /\ atStart = [products |-> <<>>, pdfExtracts |-> <<>>, urdfExtracts |-> <<>>]
    /\ clock = 0

InitWith(e) ==
    /\ env = e
    /\ InitIdle
    /\ mIn = NoMatch
    /\ mOut = None
    /\ fIn = None
    /\ fOut = <<>>

Init == InitWith(EnvBatch)

\* a continuation of one of the calls in flight runs
DocumentStep ==
    \E s \in 1..BATCH_SIZE:
        \/ ExistsCheck(s)
        \/ \E status \in {"IN_PROGRESS", "SUCCEEDED", "FAILED", "PARTIAL_SUCCESS"}:
             \E text \in env.texts: TextractPoll(s, status, text)
        \/ TextractThrows(s)
        \/ \E text \in env.texts: ParseURDF(s, text)
        \/ ParseURDFThrows(s)
        \/ \E a \in env.answers: Match(s, a[2])
        \/ Assets(s)
        \/ AssetsThrow(s)
        \/ InsertDoc(s)
        \/ ValidateCandidate(s)
        \/ Lookup(s)
        \/ \E now \in Times: WritePdfProduct(s, now)
        \/ \E now \in Times: WriteUrdfProduct(s, now)

\* a store operation of one of the calls in flight rejects
StoreFaultStep ==
    \E s \in 1..BATCH_SIZE:
        \/ ExistsCheckFails(s)
        \/ InsertDocFails(s)
        \/ LookupFails(s)
        \/ WriteFails(s)

RunStep == \E l \in env.lists: StartRun(l[1], l[2])

Next ==
    \/ RunStep
    \/ BatchSettled
    \/ DocumentStep

\* Runs of both pipelines over two batches; every store operation succeeds.
Spec == Init /\ [][Next]_vars

\* Documents processed one after the other, one run each.
InitSeq == InitWith(EnvSeq)
SpecSeq == InitSeq /\ [][Next]_vars

\* One run; every call in flight eventually returns or throws, and
\* Promise.allSettled resolves once all have.
InitLive == InitWith(EnvLive)
FairSpec == InitLive /\ [][Next]_vars /\ WF_vars(DocumentStep) /\ WF_vars(BatchSettled)

\* Store operations may fail.
InitFaults == InitWith([EnvLive EXCEPT !.maxFaults = MaxFaults])
NextFaults == Next \/ StoreFaultStep
SpecFaults == InitFaults /\ [][NextFaults]_vars

\* One run over documents whose answers are malformed.
InitMalformed == InitWith(EnvMalformed)
SpecMalformed == InitMalformed /\ [][Next]_vars

\* One start of either script in any environment, and the run that follows
\* when the start succeeds.
InitStartup ==
    /\ env \in {[EnvLive EXCEPT !.boot = b] : b \in Boots}
    /\ InitIdle
    /\ mIn = NoMatch
    /\ mOut = None
    /\ fIn = None
    /\ fOut = <<>>
FailedStart == \E pipeline \in {"pdf", "urdf"}: StartupFails(pipeline)
NextStartup == Next \/ FailedStart
SpecStartup == InitStartup /\ [][NextStartup]_vars

\* one run of either pipeline over one document, which may throw
EnvSingle ==
    [EnvLive EXCEPT !.lists = {<<"pdf", <<pdfA>>>>, <<"urdf", <<urdfA>>>>},
                    !.answers = {<<pdfA, <<Answer(<<cNoName, cRoboArm>>)>>>>,
                                 <<urdfA, <<Answer(<<cNoName, cRoboArm>>)>>>>},
                    !.flaky = {pdfA, urdfA}]

\* candidates to normalize: names absent, empty, blank, padded, with runs of
\* spaces, with other separators, without any; brands and types absent or set
MaxCalls == 2
sBlank == <<" ", "\t">>
sPadded == <<" ", "R", "o", "b", "o", " ", " ", "A", "r", "m", "\n">>
sRoboDash == <<"R", "o", "b", "o", "-", "A", "r", "m", "_", "X">>
NormNames ==
    {None, Some(<<>>), Some(<<" ">>), Some(sBlank), Some(sRoboArm), Some(sroboarm),
     Some(sPadded), Some(sRoboDash), Some(sGrip)}
NormBrands == {None, Some(sABB), Some(sabb)}
NormTypes == {None, Some(<<>>), Some(sRobot)}
NormInputs ==
    {Candidate(n, b, t, None, None, None) : n \in NormNames, b \in NormBrands, t \in NormTypes}

\* normalizeProductData is called on a candidate, at any moment of a run;
\* stored is the number of ProductRecords at the call
NormalizeCall ==
    \E product \in NormInputs:
        /\ Len(fOut) < MaxCalls
        /\ fOut = <<>> \/ fIn = Some(product)
        /\ fIn' = Some(product)
        /\ fOut' = Append(fOut, [result |-> normalizeProductData(product),
                                 stored |-> Len(products)])
        /\ UNCHANGED <<env, products, pdfExtracts, urdfExtracts, run, slots, settled,
                       faults, atStart, clock, mIn, mOut>>

\* Calls of the Normalizer on one candidate while a run goes on.
InitNorm == InitWith(EnvSingle)
NextNorm == Next \/ NormalizeCall
SpecNorm == InitNorm /\ [][NextNorm]_vars

\* page texts to extract a price from: no price, or one price, alone or after
\* the product name at a distance that puts it next to the name, across the
\* end of the 100-character context, or beyond it
pZero == <<"$", "0", ".", "0", "0">>
pTwoMillion == <<"$", "2", ",", "0", "0", "0", ",", "0", "0", "0", ".", "0", "0">>
pGrouped == <<"$", "1", ",", "2", "3", "4", ".", "5", "6">>
pUngrouped == <<"$", "1", "2", "3", "4", ".", "5", "6">>
pCode == <<"1", "2", "3", "4", " ", "U", "S", "D">>
pThousands == <<"$", "1", ",", "2", "3", "4">>
pLargest == <<"$", "9", "9", "9", ",", "9", "9", "9", ".", "9", "9">>
pWord == <<"p", "r", "i", "c", "e", ":", " ", "1", "2", ",", "5", "0">>
pBareZero == <<"0", ".", "0", "0">>
pMillionCode == <<"1", ",", "0", "0", "0", ",", "0", "0", "0", ".", "0", "0", " ", "U", "S", "D">>
pSpaced == <<"$", " ", "5">>
pEuro == <<"EURO", "1", "2", ",", "3", "4">>
PriceStrings ==
    {<<>>, pZero, pTwoMillion, pGrouped, pUngrouped, pCode, pThousands, pLargest,
     pWord, pBareZero, pMillionCode, pSpaced, pEuro}
Pad(n) == [i \in 1..n |-> " "]
Gaps == {1, WINDOW - 5, WINDOW - 3, WINDOW + 1}
PriceTexts ==
    {[text |-> p, only |-> p] : p \in PriceStrings}
    \cup {[text |-> sGrip \o Pad(g) \o p, only |-> p] : g \in Gaps, p \in PriceStrings}
PriceInputs ==
    {[text |-> t.text, productName |-> n, only |-> t.only] :
        t \in PriceTexts, n \in {sGrip, sRoboArm, <<>>}}

\* extractPrice is called on a page text and a product name
PriceCall ==
    /\ fOut = <<>>
    /\ ~IsNull(fIn)
    /\ fOut' = <<extractPrice(Val(fIn).text, Val(fIn).productName)>>
    /\ UNCHANGED <<env, products, pdfExtracts, urdfExtracts, run, slots, settled,
                   faults, atStart, clock, mIn, mOut, fIn>>

\* One call of the Price Extractor.
InitPrice ==
    /\ env = EnvNone
    /\ InitIdle
    /\ mIn = NoMatch
    /\ mOut = None
    /\ fIn \in {Some(x) : x \in PriceInputs}
    /\ fOut = <<>>
NextPrice == PriceCall
SpecPrice == InitPrice /\ [][NextPrice]_vars

\* the bucket holds a.pdf under the prefix and under a folder of it: two keys
\* of one fileName in one group (the files of the URDF folder, read from one
\* directory, have distinct names)
pdfSubA == <<"uploads", "sub", "a.pdf">>
EnvSameName ==
    [EnvLive EXCEPT !.lists = {<<"pdf", <<pdfA, pdfSubA>>>>, <<"urdf", <<urdfA, urdfB>>>>},
                    !.answers = {<<pdfA, <<Answer(<<cRoboArm>>)>>>>,
                                 <<pdfSubA, <<Answer(<<cNoName, cGrip>>)>>>>,
                                 <<urdfA, <<Answer(<<cRoboArm>>)>>>>,
                                 <<urdfB, <<Answer(<<cNoName, cGrip>>)>>>>},
                    !.flaky = {pdfSubA, urdfB},
                    !.maxRuns = MaxRuns]

\* Runs over a list in which two keys derive one fileName.
InitSameName == InitWith(EnvSameName)
SpecSameName == InitSameName /\ [][Next]_vars

\* One call of the Matcher on a document text, the reasoning service
\* answering as the script says.
MatchCall ==
    /\ IsNull(mOut)
    /\ mOut' = Some(matchProductsWithOpenAI(mIn.text, mIn.script, 0))
    /\ UNCHANGED <<env, products, pdfExtracts, urdfExtracts, run, slots, settled,
                   faults, atStart, clock, mIn, fIn, fOut>>

InitMatch ==
    /\ env = EnvNone
    /\ InitIdle
    /\ mIn \in [text : MatchTexts, script : MatchScripts]
    /\ mOut = None
    /\ fIn = None
    /\ fOut = <<>>

NextMatch == MatchCall
SpecMatch == InitMatch /\ [][NextMatch]_vars

---------------------------------------------------------------------------
(* Properties of the Matcher, under SpecMatch *)

MatchDone == ~IsNull(mOut)
NonBlank(text) == trim(text) # <<>>
IsFailure(r, statuses) == r.kind = "err" /\ r.status \in {Some(c) : c \in statuses}
EveryAttempt(script, statuses) == \A i \in 1..Len(script) : IsFailure(script[i], statuses)

\* C6: a call whose every attempt fails with 429 is retried exactly 3 times
\* (4 invocations of the service), then returns the empty list and does not throw.
C6_RetryExhaustion ==
    (MatchDone /\ NonBlank(mIn.text) /\ EveryAttempt(mIn.script, {429}))
    => /\ Val(mOut).calls - 1 = 3
       /\ Val(mOut).result = <<>>
       /\ ~Val(mOut).threw

C6_Witness ==
    /\ MatchDone /\ NonBlank(mIn.text)
    /\ mIn.script = <<ApiError(Some(429), Some(5)), ApiError(Some(429), None)>>
    /\ Val(mOut).sleeps = <<5, 60, 60, 60>>

\* C7 as stated: with only 429, 500 and 503 failures a call invokes the
\* service at most 3 times in total and returns the empty list.
C7_AtMostThreeAttempts ==
    (MatchDone /\ NonBlank(mIn.text) /\ EveryAttempt(mIn.script, {429, 500, 503}))
    => Val(mOut).calls <= 3 /\ Val(mOut).result = <<>>

\* C7 amended: a call invokes the service at most 4 times in total (the
\* first attempt and up to 3 retries, the cap shared between 429, 500 and
\* 503); when every attempt fails that way it gives up after the 4th and
\* returns the empty list.
C7_AtMostFourAttempts ==
    MatchDone
    => /\ Val(mOut).calls <= 4
       /\ (NonBlank(mIn.text) /\ EveryAttempt(mIn.script, {429, 500, 503}))
          => Val(mOut).calls = 4 /\ Val(mOut).result = <<>>

C7_Witness ==
    /\ MatchDone /\ NonBlank(mIn.text)
    /\ mIn.script = <<ApiError(Some(429), None), ApiError(Some(503), None)>>
    /\ Val(mOut).calls = 4

---------------------------------------------------------------------------
(* Properties of the stored products, under SpecSeq: documents one by one *)

Quiet == run.phase \in {"idle", "done"}

\* the identity key of "Robo Arm" / "ABB" and of "robo arm" / "abb"
KeyName == sroboarm
KeyBrand == sabb
WithKey(coll) ==
    {i \in 1..Len(coll):
        coll[i].norm.name_norm = KeyName /\ coll[i].norm.brand_norm = KeyBrand}
RefFiles(rec) == {rec.source_refs[j].fileName : j \in 1..Len(rec.source_refs)}
FilesOf(coll) == {coll[i].fileName : i \in 1..Len(coll)}

\* C1: when two different documents, each with one candidate of the key
\* ("Robo Arm"/"ABB" in one, "robo arm"/"abb" in the other), have been
\* processed one after the other through the upsert path and nothing else
\* wrote products, there is exactly one ProductRecord of that key and its
\* source_refs has exactly two entries, one per document.
C1_OneRecordTwoRefs ==
    (Quiet /\ pdfExtracts = <<>> /\ Len(urdfExtracts) = 2)
    => /\ Cardinality(WithKey(products)) = 1
       /\ \A i \in WithKey(products):
            /\ Len(products[i].source_refs) = 2
            /\ RefFiles(products[i]) = FilesOf(urdfExtracts)

C1_Witness ==
    /\ Quiet /\ pdfExtracts = <<>>
    /\ FilesOf(urdfExtracts) = {"a.urdf", "b.urdf"}
    /\ urdfExtracts[1].fileName = "a.urdf"
    /\ Len(products) = 1
    /\ products[1].name = Some(sRoboArm)
    /\ Len(products[1].source_refs) = 2

\* C2 as stated: after any sequential processing of documents of either
\* source type, no two ProductRecords share (brand_norm, name_norm).
C2_NoTwoRecordsShareKey ==
    \A i, j \in 1..Len(products):
        (/\ products[i].norm.brand_norm = products[j].norm.brand_norm
         /\ products[i].norm.name_norm = products[j].norm.name_norm) => i = j

\* the product under the candidate a slot is about to write
MergeStep(s) ==
    /\ At(s, "write")
    /\ run.pipeline = "urdf"
    /\ ~IsNull(slots[s].existing)
    /\ slots'[s].idx = slots[s].idx + 1
MergedFrom(s) == slots[s].matched[slots[s].idx]
MergedId(s) == Val(slots[s].existing)

\* C5 as stated: after a merge each of product_type, sub_type and price is
\* the candidate's value when the candidate's is non-null, else the previous.
C5_NonNullWins ==
    [][\A s \in 1..BATCH_SIZE: MergeStep(s) =>
        LET cand == MergedFrom(s)
            old == products[MergedId(s)]
            new == products'[MergedId(s)]
            pick(c, prev) == IF ~IsNull(c) THEN c ELSE prev
        IN /\ new.product_type = pick(cand.product_type, old.product_type)
           /\ new.sub_type = pick(cand.sub_type, old.sub_type)
           /\ new.price = pick(cand.price, old.price)]_vars

\* C5 amended: after a merge each of product_type, sub_type and price is the
\* candidate's value when the candidate's is truthy (not null, not the empty
\* string, not zero), else the previous value; a merge never replaces a
\* non-null field by null.
C5_TruthyWins ==
    [][\A s \in 1..BATCH_SIZE: MergeStep(s) =>
        LET cand == MergedFrom(s)
            old == products[MergedId(s)]
            new == products'[MergedId(s)]
        IN /\ new.product_type = IF TruthyStr(cand.product_type)
                                 THEN cand.product_type ELSE old.product_type
           /\ new.sub_type = IF TruthyStr(cand.sub_type)
                             THEN cand.sub_type ELSE old.sub_type
           /\ new.price = IF TruthyNum(cand.price) THEN cand.price ELSE old.price
           /\ ~IsNull(old.product_type) => ~IsNull(new.product_type)
           /\ ~IsNull(old.sub_type) => ~IsNull(new.sub_type)
           /\ ~IsNull(old.price) => ~IsNull(new.price)]_vars

\* "robo arm"/"abb" without a price merged into the record of "Robo Arm"/"ABB"
C5_Witness ==
    /\ Len(products) = 1
    /\ Len(products[1].source_refs) = 2
    /\ products[1].source_refs[2].fileName = "b.urdf"
    /\ products[1].product_type = Some(sRobot)
    /\ products[1].sub_type = Some(sArm)
    /\ products[1].price = Some(n99_5)

---------------------------------------------------------------------------
(* Properties of runs over batches, under Spec *)

HasRecord(coll, key) == \E i \in 1..Len(coll): coll[i].fileName = fileNameOf(key)
StoreAtStart(pipeline) ==
    IF pipeline = "pdf" THEN atStart.pdfExtracts ELSE atStart.urdfExtracts
FilesIn(files) == {files[i] : i \in 1..Len(files)}

\* the run in progress or just over repeats the one before it
Rerun ==
    /\ run.n >= 2
    /\ run.files # <<>>
    /\ run.pipeline = run.prevPipeline
    /\ run.files = run.prevFiles

NothingNew ==
    /\ products = atStart.products
    /\ pdfExtracts = atStart.pdfExtracts
    /\ urdfExtracts = atStart.urdfExtracts

EverySkipped ==
    /\ \A i \in 1..Len(settled): settled[i].status = "fulfilled" /\ settled[i].skipped
    /\ \A s \in 1..BATCH_SIZE: slots[s].pc \in {"idle", "exists", "fulfilled"}
    /\ run.phase = "done" => Len(settled) = Len(run.files)

\* C3 as stated: a run over the same sources as the run before it, on the
\* store as that run left it, adds no IngestionRecord and no ProductRecord,
\* and every document is skipped.
C3_RerunSkipsAll == Rerun => NothingNew /\ EverySkipped

\* C3 amended: a run over the same sources as the run before it, on the
\* store as that run left it, adds no IngestionRecord and no ProductRecord
\* and skips every document, provided every document of the list has an
\* IngestionRecord when the run starts; a document that threw before its
\* record was written is processed again.
C3_RerunSkipsRecorded ==
    (Rerun /\ \A k \in FilesIn(run.files): HasRecord(StoreAtStart(run.pipeline), k))
    => NothingNew /\ EverySkipped

C3_Witness ==
    /\ Rerun /\ run.phase = "done" /\ run.reported
    /\ Len(atStart.pdfExtracts) = 4
    /\ Len(settled) = 4
    /\ \A i \in 1..4: settled[i].skipped
    /\ NothingNew

\* C4: a document whose IngestionRecord (same fileName) exists when its
\* processing starts is skipped: the call fulfils at the guard having fetched
\* no text, called no service and written nothing, and the store is unchanged.
C4_SkipTouchesNothing ==
    /\ [](\A s \in 1..BATCH_SIZE: slots[s].skipped =>
            /\ slots[s].pc = "fulfilled"
            /\ ~slots[s].fetched /\ ~slots[s].called /\ ~slots[s].wrote)
    /\ [][\A s \in 1..BATCH_SIZE:
            (/\ At(s, "exists")
             /\ slots'[s] # slots[s]
             /\ HasRecord(ExtractsOf(run.pipeline), slots[s].key))
            => /\ slots'[s].pc = "fulfilled" /\ slots'[s].skipped
               /\ ~slots'[s].fetched /\ ~slots'[s].called /\ ~slots'[s].wrote
               /\ UNCHANGED <<products, pdfExtracts, urdfExtracts>>]_vars

C4_Witness ==
    /\ run.pipeline = "urdf"
    /\ \E s \in 1..BATCH_SIZE:
        /\ slots[s].skipped
        /\ slots[s].key = urdfA
        /\ HasRecord(urdfExtracts, urdfA)

\* C8: a document that throws settles as rejected and nothing else changes:
\* every document of the group and of the later groups settles, the ones
\* that fulfil have their IngestionRecord, and the failure count of a group
\* is the number of its documents that threw.
C8_BatchIsolation ==
    /\ \A i \in 1..Len(settled):
        /\ settled[i].status \in {"fulfilled", "rejected"}
        /\ settled[i].key = run.files[i]
        /\ settled[i].status = "fulfilled"
             => HasRecord(ExtractsOf(run.pipeline), settled[i].key)
    /\ Len(run.results) <= BATCH_SIZE
    /\ run.totalFailed = CountStatus(settled, "rejected")
    /\ run.totalProcessed = CountStatus(settled, "fulfilled")
    /\ (Running /\ run.i > 0) =>
          /\ Len(settled) = run.i
          /\ CountStatus(run.results, "rejected")
               = CountStatus(SubSeq(settled, run.i - BATCH_SIZE + 1, run.i), "rejected")
    /\ (run.phase = "done" /\ run.files # <<>>) => Len(settled) = Len(run.files)

\* document 2 of the first group of 3 threw; 1, 3 and the later 4 are persisted
C8_Witness ==
    /\ run.phase = "done" /\ run.n = 1 /\ run.pipeline = "pdf"
    /\ Len(settled) = 4
    /\ settled[2].status = "rejected"
    /\ run.totalFailed = 1 /\ run.totalProcessed = 3
    /\ \A k \in {pdfA, pdfC, pdfD}: HasRecord(pdfExtracts, k)
    /\ ~HasRecord(pdfExtracts, pdfB)

\* C10: validating a candidate that lacks a name or a brand counts one
\* failed candidate, writes and changes no ProductRecord, and goes on to the
\* next candidate (or ends the document as fulfilled): the document is not
\* failed.
C10_InvalidCandidateOnly ==
    [][\A s \in 1..BATCH_SIZE:
        (/\ At(s, "candidate")
         /\ slots'[s] # slots[s]
         /\ LET c == slots[s].matched[slots[s].idx]
            IN c.isObject /\ (~TruthyStr(c.name) \/ ~TruthyStr(c.brand)))
        => /\ slots'[s].failedCount = slots[s].failedCount + 1
           /\ slots'[s].savedCount = slots[s].savedCount
           /\ slots'[s].updatedCount = slots[s].updatedCount
           /\ slots'[s].idx = slots[s].idx + 1
           /\ slots'[s].pc \in {"candidate", "fulfilled"}
           /\ UNCHANGED <<products, pdfExtracts, urdfExtracts>>]_vars

\* d.pdf: the candidate without a brand is counted, the next one is saved
C10_Witness ==
    \E s \in 1..BATCH_SIZE:
        /\ slots[s].key = pdfD
        /\ slots[s].pc = "fulfilled"
        /\ slots[s].failedCount = 1
        /\ slots[s].savedCount = 1
        /\ \E i \in 1..Len(products): products[i].name = Some(sGrip)

---------------------------------------------------------------------------
(* Termination of a run, under FairSpec *)

---------------------------------------------------------------------------
(* Properties of the candidate loop, under SpecMalformed *)

IsValid(c) == c.isObject /\ TruthyStr(c.name) /\ TruthyStr(c.brand)
PersistedFrom(key, c) ==
    \E i \in 1..Len(products):
        /\ products[i].name = c.name
        /\ \E j \in 1..Len(products[i].source_refs):
             products[i].source_refs[j].fileName = fileNameOf(key)
LoopEntered(slot) == slot.docId # 0

\* C11 as stated: whatever entries the list of a document holds (entries
\* with missing fields, null entries, entries that are not objects), once the
\* document's candidate loop is over every valid candidate of the list has
\* been persisted and every other entry has been counted as failed.
C11_OtherCandidatesPersisted ==
    \A s \in 1..BATCH_SIZE:
        (IsSettled(slots[s]) /\ LoopEntered(slots[s]))
        => /\ \A i \in 1..Len(slots[s].matched):
                IsValid(slots[s].matched[i])
                => PersistedFrom(slots[s].key, slots[s].matched[i])
           /\ slots[s].failedCount
                = Cardinality({i \in 1..Len(slots[s].matched):
                                  ~IsValid(slots[s].matched[i])})

---------------------------------------------------------------------------
(* More properties of the Matcher, under SpecMatch *)

IsOtherError(r) == r.kind = "err" /\ ~IsFailure(r, {429, 500, 503})

\* C12: when the service fails with an error other than 429, 500 or 503 the
\* call ends there: failing so on the first attempt it has invoked the
\* service exactly once, has not slept and returns the empty list; failing
\* so on the attempt after a retry it does not retry or sleep again.
C12_OtherErrorNoRetry ==
    (MatchDone /\ NonBlank(mIn.text))
    => /\ IsOtherError(mIn.script[1])
          => /\ Val(mOut).calls = 1
             /\ Val(mOut).sleeps = <<>>
             /\ Val(mOut).result = <<>>
             /\ ~Val(mOut).threw
       /\ (/\ Len(mIn.script) = 2
           /\ IsFailure(mIn.script[1], {429, 500, 503})
           /\ IsOtherError(mIn.script[2]))
          => /\ Val(mOut).calls = 2
             /\ Len(Val(mOut).sleeps) = 1
             /\ Val(mOut).result = <<>>

C12_Witness ==
    /\ MatchDone /\ NonBlank(mIn.text)
    /\ mIn.script = <<ApiError(Some(400), None)>>
    /\ Val(mOut).calls = 1

IsBlank(text) == \A i \in 1..Len(text): IsSpace(text[i])

\* C13: a call with an empty or whitespace-only text returns the empty list
\* and has not invoked the service, whatever the service would have answered.
C13_BlankTextNoCall ==
    (MatchDone /\ IsBlank(mIn.text))
    => /\ Val(mOut).calls = 0
       /\ Val(mOut).sleeps = <<>>
       /\ Val(mOut).result = <<>>
       /\ ~Val(mOut).threw

C13_Witness ==
    /\ MatchDone
    /\ mIn.text = <<" ", "\n">>
    /\ mIn.script = <<Answer(<<cRoboArm>>)>>
    /\ Val(mOut).calls = 0

---------------------------------------------------------------------------
(* Answers without a list, under SpecMalformed *)

\* text that is not JSON, or JSON with no array at the top, under "products",
\* under "matches" or under any other key
NoListIn(json) ==
    \/ ~json.valid
    \/ json.value.t \in {"null", "scalar"}
    \/ /\ json.value.t = "object"
       /\ \A i \in 1..Len(json.value.fields): ~json.value.fields[i].isArray
AnswersNoList(key) ==
    \E a \in env.answers:
        /\ a[1] = key
        /\ a[2][1].kind = "ok"
        /\ ~IsNull(a[2][1].content)
        /\ NoListIn(Val(a[2][1].content))
RecordsOf(coll, key) == {i \in 1..Len(coll): coll[i].fileName = fileNameOf(key)}

\* C14: when the service answers a document with text that is not JSON or
\* with JSON holding no array, the match returns the empty list and nothing
\* is thrown; the document goes on as one with zero matches: it fulfils, is
\* counted as processed, its IngestionRecord is written with
\* matchedProductsCount 0 and no ProductRecord comes from it.
C14_NoListIsZeroMatches ==
    /\ \A s \in 1..BATCH_SIZE:
        (AnswersNoList(slots[s].key) /\ slots[s].called)
        => /\ slots[s].matched = <<>>
           /\ slots[s].pc # "rejected"
           /\ slots[s].savedCount + slots[s].updatedCount + slots[s].failedCount = 0
           /\ slots[s].pc = "fulfilled"
              => \E i \in RecordsOf(ExtractsOf(run.pipeline), slots[s].key):
                    ExtractsOf(run.pipeline)[i].matchedProductsCount = 0
    /\ \A i \in 1..Len(settled):
        AnswersNoList(settled[i].key)
        => settled[i].status = "fulfilled" /\ ~settled[i].skipped
    /\ \A i \in 1..Len(products), j \in 1..Len(run.files):
        AnswersNoList(run.files[j])
        => \A k \in 1..Len(products[i].source_refs):
              products[i].source_refs[k].fileName # fileNameOf(run.files[j])

\* c.pdf (not JSON) and d.pdf (an object without an array) after a PDF run
C14_Witness ==
    /\ run.phase = "done" /\ run.pipeline = "pdf"
    /\ AnswersNoList(pdfC) /\ AnswersNoList(pdfD)
    /\ \A k \in {pdfC, pdfD}:
         \E i \in RecordsOf(pdfExtracts, k): pdfExtracts[i].matchedProductsCount = 0
    /\ settled[3].status = "fulfilled" /\ settled[4].status = "fulfilled"
    /\ run.totalProcessed >= 2

---------------------------------------------------------------------------
(* Provenance, under SpecMalformed *)

SameProvenance(a, b) ==
    /\ a.source = b.source
    /\ a.collection = b.collection
    /\ a.source_id = b.source_id
    /\ a.fileName = b.fileName

\* C15 as stated: no ProductRecord holds two source_refs entries that agree
\* on (source, collection, source_id, fileName).
C15_NoTwoRefsAgree ==
    \A i \in 1..Len(products):
        \A j, k \in 1..Len(products[i].source_refs):
            SameProvenance(products[i].source_refs[j], products[i].source_refs[k])
            => j = k

---------------------------------------------------------------------------
(* The upsert, under SpecSeq: nothing runs between its lookup and its write *)

UpsertStep(s) ==
    /\ At(s, "write")
    /\ run.pipeline = "urdf"
    /\ slots'[s].idx = slots[s].idx + 1
KeyOf(c) == <<trim(toLowerCase(Val(c.brand))), trim(toLowerCase(Val(c.name)))>>
HoldingKey(coll, key) ==
    {i \in 1..Len(coll): <<coll[i].norm.brand_norm, coll[i].norm.name_norm>> = key}

\* C16: an upsert of a candidate whose key no ProductRecord has appends
\* exactly one record, whose source_refs is the one provenance entry of the
\* candidate's document, and returns inserted with the id of that record; an
\* upsert of a candidate whose key a record has inserts nothing and returns
\* the id of a record with that key, not inserted.
C16_InsertOrExisting ==
    [][\A s \in 1..BATCH_SIZE: UpsertStep(s) =>
        LET cand == slots[s].matched[slots[s].idx]
            holders == HoldingKey(products, KeyOf(cand))
            result == upsertResult(products, slots[s].existing, products')
        IN IF holders = {}
           THEN /\ Len(products') = Len(products) + 1
                /\ SubSeq(products', 1, Len(products)) = products
                /\ LET new == products'[Len(products')]
                   IN /\ new.name = cand.name /\ new.brand = cand.brand
                      /\ Len(new.source_refs) = 1
                      /\ new.source_refs[1].fileName = fileNameOf(slots[s].key)
                      /\ new.source_refs[1].source_id = slots[s].docId
                      /\ new.source_refs[1].collection = "urdfExtracts"
                      /\ result.inserted /\ result.id = new.id
                      /\ \A i \in 1..Len(products): products[i].id # new.id
                /\ slots'[s].savedCount = slots[s].savedCount + 1
           ELSE /\ Len(products') = Len(products)
                /\ ~result.inserted
                /\ \E i \in holders: products[i].id = result.id
                /\ slots'[s].savedCount = slots[s].savedCount]_vars

\* c.urdf after a.urdf: its first candidate found the record, its second did not
C16_Witness ==
    /\ Len(products) = 2
    /\ products[2].name = Some(sGrip)
    /\ \E s \in 1..BATCH_SIZE:
        /\ slots[s].key = urdfC
        /\ slots[s].pc = "fulfilled"
        /\ slots[s].savedCount = 1
        /\ slots[s].updatedCount = 1

---------------------------------------------------------------------------
(* Startup, under SpecStartup *)

Present(v) == ~IsNull(v)
Mandatory(pipeline) ==
    IF pipeline = "pdf" THEN {"OPENAI_API_KEY", "AWS_REGION", "MONGO_URI"}
    ELSE {"OPENAI_API_KEY", "MONGO_URI"}
HasVendorsArray(file) ==
    /\ ~IsNull(file)
    /\ Val(file).valid
    /\ Val(file).value.t = "object"
    /\ \E i \in 1..Len(Val(file).value.fields):
        /\ Val(file).value.fields[i].k = "vendors"
        /\ Val(file).value.fields[i].isArray
StartupMet(pipeline) ==
    /\ \A k \in Mandatory(pipeline): Present(env.boot[k])
    /\ HasVendorsArray(env.boot.manifest)
    /\ env.boot.connects
WorkBegun ==
    \/ run.phase \in {"batch", "done"}                  \* the sources were listed
    \/ \E s \in 1..BATCH_SIZE: slots[s] # IdleSlot
    \/ settled # <<>>
    \/ products # <<>> \/ pdfExtracts # <<>> \/ urdfExtracts # <<>>

\* C17: work has begun (a listing, a fetch, a service call, a write) only
\* if every mandatory variable is present, the manifest holds a vendors
\* array and the store connection succeeded; a process started without one
\* of the three has exited with a non-zero status and has done no work.
C17_NoWorkUnlessStarted ==
    /\ WorkBegun => StartupMet(run.pipeline)
    /\ (run.n > 0 /\ ~StartupMet(run.pipeline)) =>
          /\ run.phase = "exited"
          /\ ~IsNull(run.exitCode) /\ Val(run.exitCode) # 0
          /\ ~WorkBegun

\* the PDF script exits because the store does not answer, all else in place
C17_Witness ==
    /\ run.phase = "exited"
    /\ run.pipeline = "pdf"
    /\ \A k \in Mandatory("pdf"): Present(env.boot[k])
    /\ HasVendorsArray(env.boot.manifest)
    /\ ~env.boot.connects

---------------------------------------------------------------------------
(* The Normalizer, under SpecNorm *)

Range(list) == {list[i] : i \in 1..Len(list)}
NormResults == {fOut[i].result : i \in 1..Len(fOut)}

\* C18 as stated: the aliases of every candidate, one whose name is empty
\* or blank included, contain its name_norm.
C18_AliasesContainNameNorm ==
    \A r \in NormResults: r.name_norm \in Range(r.aliases)

\* C18: the aliases of a candidate whose name_norm is not empty contain
\* name_norm, as their first entry; a candidate whose name is absent, empty or
\* blank has an empty name_norm and no aliases at all.
C18_AliasesContainNonEmptyNameNorm ==
    \A r \in NormResults:
        IF r.name_norm # <<>>
        THEN r.name_norm \in Range(r.aliases) /\ r.aliases[1] = r.name_norm
        ELSE r.aliases = <<>>

\* a blank name has been normalized: no name_norm, no aliases
C18_Witness ==
    /\ fOut # <<>>
    /\ Val(fIn).name = Some(sBlank)
    /\ fOut[1].result.name_norm = <<>>
    /\ fOut[1].result.aliases = <<>>

---------------------------------------------------------------------------
(* The Price Extractor, under SpecPrice *)

InOpenRange(num) ==
    /\ \E i \in 1..Len(num): num[i] \in {"1", "2", "3", "4", "5", "6", "7", "8", "9"}
    /\ Len(WholePart(num)) <= 6

\* C20: extractPrice returns null or a value strictly between 0 and
\* 1,000,000, whatever the text and the product name; a text whose only price
\* is "$0.00" or "$2,000,000.00" yields null.
C20_PriceInRangeOrNull ==
    \A i \in 1..Len(fOut):
        /\ IsNull(fOut[i]) \/ InOpenRange(Val(fOut[i]))
        /\ Val(fIn).only \in {pZero, pTwoMillion} => IsNull(fOut[i])

---------------------------------------------------------------------------
(* Exhausted retries at the Orchestrator, under Spec *)

ExhaustsRetries(key) ==
    \E a \in env.answers: a[1] = key /\ EveryAttempt(a[2], {429, 500, 503})
Exhausted(slot) == slot.called /\ ExhaustsRetries(slot.key)

---------------------------------------------------------------------------
(* Store errors at a candidate, under SpecFaults *)

StoreFaultOnCandidate(s) ==
    /\ faults' = faults + 1
    /\ slots[s].pc \in {"lookup", "write"}
    /\ slots'[s] # slots[s]

\* C22: a store operation that fails during the lookup or the write of a
\* candidate counts that candidate as failed, writes no ProductRecord, and
\* moves the loop of the document on to the next candidate (or ends it): the
\* failed candidate is not written later either.
C22_StoreErrorFailsCandidate ==
    [][\A s \in 1..BATCH_SIZE: StoreFaultOnCandidate(s) =>
        /\ slots'[s].failedCount = slots[s].failedCount + 1
        /\ products' = products
        /\ slots'[s].idx = slots[s].idx + 1
        /\ slots'[s].pc \in {"candidate", "fulfilled"}]_vars

---------------------------------------------------------------------------
(* The counters of a run, under Spec *)

SettledWhere(Test(_)) == Cardinality({i \in 1..Len(settled): Test(settled[i])})
Succeeded(r) == r.status = "fulfilled" /\ ~r.skipped
Skipped(r) == r.status = "fulfilled" /\ r.skipped
Failed(r) == r.status = "rejected"

---------------------------------------------------------------------------
(* The race of two upserts, under Spec *)

\* C24: the write of an upsert acts on what its lookup found, not on what the
\* store holds by then: a write whose lookup found nothing appends a record
\* of the candidate's key even when a concurrent document has inserted that
\* key in between, which leaves two ProductRecords with one
\* (brand_norm, name_norm).
C24_LookupThenWriteNotAtomic ==
    [][\A s \in 1..BATCH_SIZE: (UpsertStep(s) /\ IsNull(slots[s].existing)) =>
        /\ Len(products') = Len(products) + 1
        /\ SubSeq(products', 1, Len(products)) = products
        /\ <<products'[Len(products')].norm.brand_norm,
             products'[Len(products')].norm.name_norm>>
               = KeyOf(slots[s].matched[slots[s].idx])]_vars

\* a.urdf and b.urdf, in flight together in the first group of the first run,
\* both looked "robo arm" of "abb" up before either wrote: two records
C24_Witness ==
    /\ run.pipeline = "urdf" /\ run.n = 1 /\ run.i = 0
    /\ \E i, j \in 1..Len(products):
        /\ i # j
        /\ products[i].norm.name_norm = products[j].norm.name_norm
        /\ products[i].norm.brand_norm = products[j].norm.brand_norm
        /\ products[i].source_refs[1].fileName = fileNameOf(urdfA)
        /\ products[j].source_refs[1].fileName = fileNameOf(urdfB)
        /\ Len(products[i].source_refs) = 1 /\ Len(products[j].source_refs) = 1

---------------------------------------------------------------------------
(* Groups of documents, under Spec *)

InFlight == {s \in 1..BATCH_SIZE: slots[s].pc \notin {"idle", "fulfilled", "rejected"}}
Starts(s) == slots'[s].pc = "exists" /\ (slots[s].pc # "exists" \/ slots'[s].key # slots[s].key)
CurrentGroup ==
    {run.files[j] : j \in {k \in 1..Len(run.files): run.i < k /\ k <= run.i + BATCH_SIZE}}

\* C25: at most BATCH_SIZE documents are in flight, all of them of the
\* current group; a document starts only in a step in which no document is
\* in flight any more: every document of the groups before has settled.
C25_GroupsDoNotOverlap ==
    /\ [](/\ Cardinality(InFlight) <= BATCH_SIZE
          /\ Cardinality(CurrentGroup) <= BATCH_SIZE
          /\ \A s \in InFlight: Running /\ slots[s].key \in CurrentGroup
          /\ Running => Len(settled) = run.i)
    /\ [][(\E s \in 1..BATCH_SIZE: Starts(s)) => InFlight = {}]_vars

\* the fourth PDF is in flight after the three of the first group settled,
\* one of them as failed
C25_Witness ==
    /\ run.phase = "batch" /\ run.pipeline = "pdf" /\ run.i = BATCH_SIZE
    /\ Len(settled) = BATCH_SIZE
    /\ settled[2].status = "rejected"
    /\ slots[1].key = pdfD /\ slots[1].pc = "match"
    /\ InFlight = {1}

---------------------------------------------------------------------------
(* The IngestionRecord and the loop over the candidates, under Spec *)

Handled(slot) == slot.savedCount + slot.updatedCount + slot.failedCount
InLoop(slot) == slot.pc \in {"candidate", "lookup", "write"}
RecordOfSlot(slot, coll) ==
    \E i \in 1..Len(coll): coll[i].id = slot.docId /\ coll[i].fileName = fileNameOf(slot.key)

\* C26 as stated: the IngestionRecord of a document exists only when every
\* candidate of the document has been handled.
C26_RecordAfterCandidates ==
    \A s \in 1..BATCH_SIZE:
        (slots[s].docId # 0 /\ RecordOfSlot(slots[s], ExtractsOf(run.pipeline)))
        => slots[s].idx > Len(slots[s].matched)

\* C26: the IngestionRecord of a document is persisted after the match and
\* before the first candidate is handled: the step that writes it finds no
\* candidate handled and enters the loop, every candidate is handled with the
\* record in the store, and every source_ref of the document carries the id
\* of that record.
C26_RecordBeforeCandidates ==
    /\ [](\A s \in 1..BATCH_SIZE:
            /\ InLoop(slots[s]) =>
                  /\ slots[s].docId # 0
                  /\ RecordOfSlot(slots[s], ExtractsOf(run.pipeline))
            /\ slots[s].docId = 0 => Handled(slots[s]) = 0)
    /\ [](\A i \in 1..Len(products): \A k \in 1..Len(products[i].source_refs):
            LET ref == products[i].source_refs[k]
                coll == IF ref.collection = "urdfExtracts" THEN urdfExtracts ELSE pdfExtracts
            IN \E j \in 1..Len(coll):
                  coll[j].id = ref.source_id /\ coll[j].fileName = ref.fileName)
    /\ [][\A s \in 1..BATCH_SIZE:
            (slots[s].docId = 0 /\ slots'[s].docId # 0 /\ slots'[s].key = slots[s].key)
            => /\ Handled(slots[s]) = 0
               /\ slots'[s].idx = 1
               /\ RecordOfSlot(slots'[s], ExtractsOf(run.pipeline)')]_vars

\* the record of b.urdf is in the store while its first candidate waits for
\* its lookup and the second has not been looked at
C26_Witness ==
    /\ run.pipeline = "urdf"
    /\ \E s \in 1..BATCH_SIZE:
        /\ slots[s].key = urdfB
        /\ slots[s].pc = "lookup"
        /\ slots[s].idx = 1 /\ Len(slots[s].matched) = 2
        /\ RecordOfSlot(slots[s], urdfExtracts)
        /\ Handled(slots[s]) = 0

---------------------------------------------------------------------------
(* What a failed document leaves behind, under SpecMalformed *)

FailedKeys ==
    {slots[s].key : s \in {t \in 1..BATCH_SIZE: slots[t].pc = "rejected"}}
    \cup {settled[i].key : i \in {j \in 1..Len(settled): settled[j].status = "rejected"}}
NewRecordOf(key) ==
    \E i \in 1..Len(ExtractsOf(run.pipeline)):
        /\ ExtractsOf(run.pipeline)[i].fileName = fileNameOf(key)
        /\ \A j \in 1..Len(StoreAtStart(run.pipeline)):
              StoreAtStart(run.pipeline)[j].id # ExtractsOf(run.pipeline)[i].id
NewRefOf(key) ==
    \E i \in 1..Len(products): \E k \in 1..Len(products[i].source_refs):
        /\ products[i].source_refs[k].fileName = fileNameOf(key)
        /\ \/ i > Len(atStart.products)
           \/ k > Len(atStart.products[i].source_refs)

\* C27: a document that failed in the run has no IngestionRecord written by
\* the run, and no ProductRecord or source_ref of the run names it: the
\* idempotency guard of a later run finds nothing and processes it again.
C27_FailedLeavesNothing ==
    \A key \in FailedKeys: ~NewRecordOf(key) /\ ~NewRefOf(key)

---------------------------------------------------------------------------
(* IngestionRecords per fileName, under SpecSameName *)

OneRecordPerFileName(coll) ==
    \A i, j \in 1..Len(coll): coll[i].fileName = coll[j].fileName => i = j
Unmodified(before, after) ==
    /\ Len(after) >= Len(before)
    /\ SubSeq(after, 1, Len(before)) = before

\* C28: whatever the keys of the list (two keys of one fileName included) and
\* the interleaving within a group, each collection of IngestionRecords holds
\* at most one record per fileName, and no step changes or removes a record
\* that was written.
C28_OneRecordWriteOnce ==
    /\ [](OneRecordPerFileName(pdfExtracts) /\ OneRecordPerFileName(urdfExtracts))
    /\ [][/\ Unmodified(pdfExtracts, pdfExtracts')
          /\ Unmodified(urdfExtracts, urdfExtracts')]_vars

---------------------------------------------------------------------------
(* The backoff of the Matcher, under SpecMatch *)

Sleeps == Val(mOut).sleeps
Retries == Val(mOut).calls - 1

\* C29: every attempt but the first comes after a sleep, and the sleep after
\* the i-th attempt is: after a 429, the retry-after of that error in seconds,
\* 60 when it carries none; after a 500 or a 503, 10 seconds.
C29_BackoffDurations ==
    (MatchDone /\ NonBlank(mIn.text))
    => /\ Retries <= Len(Sleeps)
       /\ \A i \in 1..Len(Sleeps):
            LET r == ResponseAt(mIn.script, i)
            IN /\ r.kind = "err"
               /\ r.status = Some(429)
                  => Sleeps[i] = IF IsNull(r.retryAfter) THEN 60 ELSE Val(r.retryAfter)
               /\ r.status \in {Some(500), Some(503)} => Sleeps[i] = 10
               /\ r.status \in {Some(429), Some(500), Some(503)}

\* a 429 advising 5 seconds, then a 503 at every later attempt
C29_Witness ==
    /\ MatchDone /\ NonBlank(mIn.text)
    /\ mIn.script = <<ApiError(Some(429), Some(5)), ApiError(Some(503), None)>>
    /\ Sleeps = <<5, 10, 10, 10>>

\* C30: a match call sleeps as many times as it retries: no sleep follows
\* the last failed attempt, after which the empty list is returned.
C30_SleepsEqualRetries ==
    (MatchDone /\ NonBlank(mIn.text)) => Len(Sleeps) = Retries

---------------------------------------------------------------------------
(* The shapes of an answer, under SpecExtract *)

MaxFields == 3

\* the members an answer object may hold, by key
ExtractFields ==
    {FArray("products", <<cRoboArm>>), FArray("products", <<>>),
     FOther("products", TRUE), FOther("products", FALSE),
     FArray("matches", <<cGrip>>), FOther("matches", TRUE),
     FArray("items", <<cOther>>), FArray("parts", <<cNoName>>),
     FOther("note", TRUE)}
FieldLists ==
    {fs \in UNION {[1..n -> ExtractFields] : n \in 0..MaxFields}:
        \A i, j \in 1..Len(fs): fs[i].k = fs[j].k => i = j}
ExtractJsons ==
    {BadJson, JsonText(JNull), JsonText(JScalar),
     JsonText(JArray(<<>>)), JsonText(JArray(<<cGrip, cRoboArm>>))}
    \cup {JsonText(JObject(fs)) : fs \in FieldLists}

\* one call of the Matcher, the service answering at once with some content
InitExtract ==
    /\ env = EnvNone
    /\ InitIdle
    /\ mIn \in [text : {sText}, script : {<<Completion(Some(j))>> : j \in ExtractJsons}]
    /\ mOut = None
    /\ fIn = None
    /\ fOut = <<>>
SpecExtract == InitExtract /\ [][NextMatch]_vars

Parsed == Val(mIn.script[1].content).value
AnsweredWithJson ==
    /\ MatchDone /\ NonBlank(mIn.text)
    /\ mIn.script[1].kind = "ok"
    /\ ~IsNull(mIn.script[1].content)
    /\ Val(mIn.script[1].content).valid
ArrayUnder(v, k) == {i \in 1..Len(v.fields): v.fields[i].k = k /\ v.fields[i].isArray}
AnyArray(v) == {i \in 1..Len(v.fields): v.fields[i].isArray}
Least(S) == CHOOSE i \in S: \A j \in S: i <= j

\* C31: the list a match call takes from the parsed answer is the answer
\* itself when it is an array; else its products member when that is an
\* array; else its matches member when that is an array; else the first
\* member, in key order, that is an array; else the empty list.
C31_ListPriority ==
    AnsweredWithJson
    => Val(mOut).result =
         IF Parsed.t = "array" THEN Parsed.items
         ELSE IF ArrayUnder(Parsed, "products") # {}
              THEN Parsed.fields[Least(ArrayUnder(Parsed, "products"))].items
         ELSE IF ArrayUnder(Parsed, "matches") # {}
              THEN Parsed.fields[Least(ArrayUnder(Parsed, "matches"))].items
         ELSE IF AnyArray(Parsed) # {}
              THEN Parsed.fields[Least(AnyArray(Parsed))].items
         ELSE <<>>

\* an object whose keys are items, matches, products in that order, all
\* arrays: the list under products is taken
C31_Witness ==
    /\ AnsweredWithJson
    /\ Parsed = JObject(<<FArray("items", <<cOther>>), FArray("matches", <<cGrip>>),
                          FArray("products", <<cRoboArm>>)>>)
    /\ Val(mOut).result = <<cRoboArm>>

---------------------------------------------------------------------------
(* The product collection over a sequence of runs, under SpecSeq *)

IsPrefix(a, b) == Len(a) <= Len(b) /\ SubSeq(b, 1, Len(a)) = a

\* C32: no step of any run deletes a ProductRecord or removes or replaces an
\* entry of a record's source_refs: every record stays in the collection
\* under its id, and its source_refs after the step begin with its
\* source_refs before the step.
C32_ProductsOnlyGrow ==
    [][/\ Len(products') >= Len(products)
       /\ \A i \in 1..Len(products):
            /\ products'[i].id = products[i].id
            /\ IsPrefix(products[i].source_refs, products'[i].source_refs)]_vars

\* two records after three runs, the first one named by three documents
C32_Witness ==
    /\ Len(products) = 2
    /\ Len(products[1].source_refs) = 3
    /\ products[1].source_refs[1].fileName = "a.urdf"

---------------------------------------------------------------------------
(* Upserts that find their record, under SpecRepeat *)

\* the service names a product of a.urdf twice, entry for entry; new Date()
\* may give the same millisecond at two writes
EnvRepeat ==
    [EnvSameName EXCEPT !.answers = {<<pdfA, <<Answer(<<cRoboArm>>)>>>>,
                                     <<pdfSubA, <<Answer(<<cNoName, cGrip>>)>>>>,
                                     <<urdfA, <<Answer(<<cRoboArm, cRoboArm>>)>>>>,
                                     <<urdfB, <<Answer(<<croboarm, cGrip>>)>>>>},
                        !.maxRuns = 1,
                        !.maxClock = MaxClock]
InitRepeat == InitWith(EnvRepeat)
SpecRepeat == InitRepeat /\ [][Next]_vars

\* the upsert of slot s resolves, having found a record
UpsertFound(s) ==
    /\ MergeStep(s)
    /\ faults' = faults
ReportsUpdated(s) == slots'[s].updatedCount = slots[s].updatedCount + 1

\* C33 as stated: an upsert that finds a record leaves the time of the upsert
\* in its updated_at and reports the record as updated, whatever the
\* candidate changes.
C33_AlwaysReportsUpdated ==
    [][\A s \in 1..BATCH_SIZE: UpsertFound(s) =>
        /\ products'[MergedId(s)].updated_at = clock'
        /\ ReportsUpdated(s)]_vars

\* C33 amended: an upsert that finds a record leaves the time of the upsert
\* in its updated_at; it reports the record as updated exactly when the
\* stored record changed, which is the case whenever the time differs from
\* the stored updated_at, the candidate brings a new source_ref, or it sets
\* product_type, sub_type or price to another value; else it reports neither
\* updated nor inserted.
C33_ReportsUpdatedWhenModified ==
    [][\A s \in 1..BATCH_SIZE: UpsertFound(s) =>
        LET old == products[MergedId(s)]
            new == products'[MergedId(s)]
        IN /\ new.updated_at = clock'
           /\ ReportsUpdated(s) <=> new # old
           /\ new # old <=> \/ clock' # old.updated_at
                            \/ new.source_refs # old.source_refs
                            \/ new.product_type # old.product_type
                            \/ new.sub_type # old.sub_type
                            \/ new.price # old.price
           /\ slots'[s].savedCount = slots[s].savedCount]_vars

\* a.urdf is done: its first entry was inserted, its second found the record
\* in the same millisecond and was reported as no change
C33_Witness ==
    \E s \in 1..BATCH_SIZE:
        /\ slots[s].key = urdfA /\ slots[s].pc = "fulfilled"
        /\ slots[s].savedCount = 1
        /\ slots[s].updatedCount = 0
        /\ slots[s].failedCount = 0
        /\ Len(products) = 1
        /\ products[1].updated_at = products[1].created_at

---------------------------------------------------------------------------
(* What a merge touches, under SpecSeq *)

\* the raw context of the document slot s is processing
RawOf(s) ==
    [fileName |-> fileNameOf(slots[s].key), page |-> None, sourceKey |-> slots[s].key,
     componentType |-> OrNullTag(MergedFrom(s).component_type)]

\* C34: after a candidate is merged into an existing record, the record's
\* raw is the extraction context of the document the candidate came from.
C34_RawIsLastSeen ==
    [][\A s \in 1..BATCH_SIZE: UpsertFound(s) =>
        products'[MergedId(s)].raw = RawOf(s)]_vars

\* C40: a merge into an existing record leaves its id, name, brand,
\* normalized key (brand_norm, name_norm, name_tokens, aliases), assets and
\* created_at as they were, and every other field too except updated_at,
\* product_type, sub_type, price and source_refs.
C40_MergeFrame ==
    [][\A s \in 1..BATCH_SIZE: UpsertFound(s) =>
        LET old == products[MergedId(s)]
            new == products'[MergedId(s)]
        IN /\ new.id = old.id
           /\ new.name = old.name
           /\ new.brand = old.brand
           /\ new.norm = old.norm
           /\ new.assets = old.assets
           /\ new.created_at = old.created_at
           /\ new = [old EXCEPT !.updated_at = new.updated_at,
                                !.product_type = new.product_type,
                                !.sub_type = new.sub_type,
                                !.price = new.price,
                                !.source_refs = new.source_refs]
           /\ \A i \in 1..Len(products): i # MergedId(s) => products'[i] = products[i]]_vars

\* "robo arm"/"abb" of b.urdf merged, at a later time, into the record that
\* a.urdf created as "Robo Arm"/"ABB"
C40_Witness ==
    /\ Len(products) = 1
    /\ products[1].name = Some(sRoboArm) /\ products[1].brand = Some(sABB)
    /\ products[1].raw.fileName = "a.urdf"
    /\ products[1].updated_at > products[1].created_at
    /\ \E k \in 1..Len(products[1].source_refs):
          products[1].source_refs[k].fileName = "b.urdf"

---------------------------------------------------------------------------
(* Spellings of one product, under SpecVariants *)

sTwoSpaces == <<"r", "o", "b", "o", " ", " ", "a", "r", "m">>
sHyphen == <<"r", "o", "b", "o", "-", "a", "r", "m">>
sUnderscore == <<"r", "o", "b", "o", "_", "a", "r", "m">>
cTwoSpaces == Candidate(Some(sTwoSpaces), Some(sabb), None, None, None, None)
cHyphen == Candidate(Some(sHyphen), Some(sABB), None, None, None, None)
cUnderscore == Candidate(Some(sUnderscore), Some(sabb), None, None, None, None)

\* single-document runs, each document naming the product in another spelling
EnvVariants ==
    [EnvSeq EXCEPT !.lists = {<<"pdf", <<pdfA>>>>, <<"urdf", <<urdfA>>>>, <<"urdf", <<urdfB>>>>,
                              <<"urdf", <<urdfC>>>>, <<"urdf", <<urdfD>>>>},
                   !.answers = {<<pdfA, <<Answer(<<cRoboArm>>)>>>>,
                                <<urdfA, <<Answer(<<cRoboArm>>)>>>>,
                                <<urdfB, <<Answer(<<cTwoSpaces>>)>>>>,
                                <<urdfC, <<Answer(<<cHyphen>>)>>>>,
                                <<urdfD, <<Answer(<<cUnderscore>>)>>>>},
                   !.flaky = {pdfA, urdfD},
                   !.maxRuns = MaxRuns,
                   !.maxClock = 0]
InitVariants == InitWith(EnvVariants)
SpecVariants == InitVariants /\ [][Next]_vars

\* the words of a string: its letters in lower case, cut at spaces, hyphens
\* and underscores
Words(str) == SelectSeqNonEmpty(split(toLowerCase(str)))
SameProduct(a, b) ==
    /\ Words(Val(a.name)) = Words(Val(b.name))
    /\ Words(Val(a.brand)) = Words(Val(b.brand))
FromUrdf(rec) == rec.source_refs[1].source = "urdf_extract"

\* C35: records whose brand and name differ only in casing, whitespace or
\* the separator between the words have the same brand_norm and name_norm;
\* candidates of URDF documents so spelled are stored in one ProductRecord.
C35_VariantsShareKey ==
    \A i, j \in 1..Len(products):
        SameProduct(products[i], products[j])
        => /\ products[i].norm.brand_norm = products[j].norm.brand_norm
           /\ products[i].norm.name_norm = products[j].norm.name_norm
           /\ (FromUrdf(products[i]) /\ FromUrdf(products[j])) => i = j

---------------------------------------------------------------------------
(* The Normalizer on fields of any type, under SpecTotal *)

\* a property of a parsed candidate: absent (undefined), null, a string, or a
\* number written as a numeral
Absent == [t |-> "absent", s |-> <<>>]
Null == [t |-> "null", s |-> <<>>]
Str(chars) == [t |-> "string", s |-> chars]
Num(numeral) == [t |-> "number", s |-> numeral]

\* !!v
Truthy(v) ==
    \/ v.t = "string" /\ v.s # <<>>
    \/ v.t = "number" /\ v.s # n0

\* (v || "").toLowerCase(): a truthy number has no toLowerCase, the call
\* throws a TypeError
LowerCaseThrows(v) == Truthy(v) /\ v.t = "number"

\* v as the nullable string the string operations work on
AsString(v) == IF Truthy(v) /\ v.t = "string" THEN Some(v.s) ELSE None

\* normalizeProductData (urdf 385-419, bom 442-476) on a candidate whose name,
\* brand and product_type are of any type: it throws at line 386, 387 or 405,
\* or returns what it returns on strings
normalizeTyped(product) ==
    IF \/ LowerCaseThrows(product.brand)
       \/ LowerCaseThrows(product.name)
       \/ /\ trim(toLowerCase(OrElse(AsString(product.name), <<>>, <<>>))) # <<>>
          /\ LowerCaseThrows(product.product_type)
    THEN [threw |-> TRUE, result |-> None]
    ELSE [threw |-> FALSE,
          result |-> Some(normalizeProductData(
                        Candidate(AsString(product.name), AsString(product.brand),
                                  AsString(product.product_type), None, None, None)))]

n42 == <<"4", "2">>
TypedNames == {Absent, Null, Str(<<>>), Str(sBlank), Str(sRoboArm), Num(n0), Num(n42)}
TypedBrands == {Absent, Null, Str(<<>>), Str(sABB), Num(n0), Num(n42)}
TypedTypes == {Absent, Null, Str(sRobot), Num(n0), Num(n42)}
TypedInputs == [name : TypedNames, brand : TypedBrands, product_type : TypedTypes]

\* one call of the Normalizer on a candidate
TotalCall ==
    /\ fOut = <<>>
    /\ fOut' = <<normalizeTyped(Val(fIn))>>
    /\ UNCHANGED <<env, products, pdfExtracts, urdfExtracts, run, slots, settled,
                   faults, atStart, clock, mIn, mOut, fIn>>

InitTotal ==
    /\ env = EnvNone
    /\ InitIdle
    /\ mIn = NoMatch
    /\ mOut = None
    /\ fIn \in {Some(x) : x \in TypedInputs}
    /\ fOut = <<>>
NextTotal == TotalCall
SpecTotal == InitTotal /\ [][NextTotal]_vars

\* C36: a call of normalize on a candidate, whatever the presence and the
\* type of its name, brand and product_type, returns a key (brand_norm,
\* name_norm, name_tokens, aliases) and does not throw.
C36_NormalizeTotal ==
    fOut # <<>> => /\ ~fOut[1].threw
                   /\ ~IsNull(fOut[1].result)

---------------------------------------------------------------------------
(* Prices of PDF candidates, under SpecPdfPrice *)

n2000000 == <<"2", "0", "0", "0", "0", "0", "0">>
n5 == <<"5">>
cCostly == Candidate(Some(sGrip), Some(sABB), None, None, Some(n2000000), None)

\* a.pdf, whose text reads "Robo Arm $5", has a candidate priced 0, one
\* priced 2000000 and one without a price
EnvPdfPrice ==
    [EnvSameName EXCEPT !.lists = {<<"pdf", <<pdfA, pdfB>>>>, <<"urdf", <<urdfA, urdfB>>>>},
                        !.answers = {<<pdfA, <<Answer(<<cFalsy, cCostly, croboarm>>)>>>>,
                                     <<pdfB, <<Answer(<<cNoName, cGrip>>)>>>>,
                                     <<urdfA, <<Answer(<<cFalsy>>)>>>>,
                                     <<urdfB, <<Answer(<<cNoName, cGrip>>)>>>>},
                        !.flaky = {pdfB, urdfB},
                        !.maxRuns = 1]
InitPdfPrice == InitWith(EnvPdfPrice)
SpecPdfPrice == InitPdfPrice /\ [][Next]_vars

\* the PDF call of slot s inserts the ProductRecord of its candidate
PdfWrite(s) ==
    /\ At(s, "write")
    /\ run.pipeline = "pdf"
    /\ slots'[s].idx = slots[s].idx + 1
    /\ Len(products') = Len(products) + 1

\* C37: the price stored for a PDF candidate is the price the Matcher gave,
\* as it is and whatever its size, when it gave one; the price found in the
\* page text by the Price Extractor only when the Matcher gave none.
C37_MatcherPriceTrusted ==
    [][\A s \in 1..BATCH_SIZE: PdfWrite(s) =>
        LET product == MergedFrom(s)
            stored == products'[Len(products')].price
        IN /\ ~IsNull(product.price) => stored = product.price
           /\ IsNull(product.price)
              => stored = extractPrice(slots[s].text, Val(product.name))]_vars

\* the three records of a.pdf: 0 and 2000000 as the Matcher gave them, though
\* the text says $5 and both are outside (0, 1,000,000); 5 from the text
C37_Witness ==
    /\ run.pipeline = "pdf"
    /\ \E i, j, k \in 1..Len(products):
         /\ products[i].price = Some(n0) /\ products[i].raw.fileName = "a.pdf"
         /\ products[j].price = Some(n2000000) /\ products[j].raw.fileName = "a.pdf"
         /\ products[k].price = Some(n5) /\ products[k].raw.fileName = "a.pdf"
         /\ products[k].name = Some(sroboarm) /\ i # k

---------------------------------------------------------------------------
(* The OCR text provider, under Spec *)

JobStatuses == {"IN_PROGRESS", "SUCCEEDED", "FAILED", "PARTIAL_SUCCESS"}
Polled(s, status) == \E text \in env.texts: TextractPoll(s, status, text)
NothingFrom(key) ==
    /\ ~HasRecord(pdfExtracts, key)
    /\ \A i \in 1..Len(products): \A k \in 1..Len(products[i].source_refs):
          products[i].source_refs[k].fileName # fileNameOf(key)
FailedAtOcr(slot) ==
    /\ run.pipeline = "pdf"
    /\ slot.pc = "rejected" /\ slot.fetched /\ ~slot.called

\* C38: a poll that finds the job in progress is followed by another poll; a
\* poll that finds it succeeded hands the text to the Matcher; a poll that
\* finds any other status rejects the document, which has then called the
\* reasoning service never and has no IngestionRecord and no ProductRecord,
\* and gets none as long as the call is settled so.
C38_OcrTerminalStatus ==
    /\ [][\A s \in 1..BATCH_SIZE: \A status \in JobStatuses: Polled(s, status) =>
            /\ status = "IN_PROGRESS" => slots'[s].pc = "fetch"
            /\ status = "SUCCEEDED" => slots'[s].pc = "match" /\ slots'[s].text \in env.texts
            /\ status \notin {"IN_PROGRESS", "SUCCEEDED"} => FailedAtOcr(slots'[s])]_vars
    /\ [](\A s \in 1..BATCH_SIZE: FailedAtOcr(slots[s]) =>
            /\ ~slots[s].wrote
            /\ slots[s].matched = <<>>
            /\ NothingFrom(slots[s].key))

\* the job of b.pdf ended other than succeeded while a.pdf, in the same
\* group, has been matched and recorded
C38_Witness ==
    \E s, t \in 1..BATCH_SIZE:
        /\ slots[s].key = pdfB /\ FailedAtOcr(slots[s])
        /\ NothingFrom(pdfB)
        /\ slots[t].key = pdfA /\ slots[t].called /\ HasRecord(pdfExtracts, pdfA)

---------------------------------------------------------------------------
(* The final tally, under Spec *)

\* C39: when a run is over, the two totals of the batch processor add up to
\* the number of source documents of the run, whichever of them succeeded,
\* failed or were skipped.
C39_TotalsCoverTheList ==
    run.phase = "done" => run.totalProcessed + run.totalFailed = Len(run.files)

\* a second URDF run over four documents: b.urdf, which threw in the first
\* run, is processed to the end, the other three are skipped
C39_Witness ==
    /\ run.phase = "done" /\ run.pipeline = "urdf" /\ run.n = 2
    /\ Len(run.files) = 4
    /\ run.totalProcessed = 4
    /\ run.totalFailed = 0
    /\ settled[2].status = "fulfilled" /\ ~settled[2].skipped
    /\ \A k \in {1, 3, 4}: settled[k].status = "fulfilled" /\ settled[k].skipped

====
